---- MODULE Spec2Model ----
(***************************************************************************)
(* A model of soltxs: the parser pipeline (parse, the program parsers, the *)
(* unknown-program fallback, deduplicate_instructions) and the resolvers.  *)
(*                                                                         *)
(* Python values are modelled as records with a "class" field (the value   *)
(* of __class__.__name__) and, for parsed events, a "module" field (the    *)
(* module that defines the class, which is what isinstance distinguishes). *)
(* None is [class |-> "NoneType"], a list is [class |-> "list", items].    *)
(* An Optional[int] field is <<>> for None and <<v>> for the value v.      *)
(* A raised exception is [class |-> "Raise", exc |-> <exception type>].    *)
(***************************************************************************)
EXTENDS Integers, Sequences, FiniteSets, TLC

VARIABLES
    tx,                   \* the normalized Transaction handed to parse
    pc,                   \* position of parse: "loop", "addons", "done", "resolved", "raised", "off"
    idx,                  \* enumerate index of parse's for loop (0-based)
    parsed_instructions,  \* parse's accumulator list
    dedup_instructions,   \* parse's deduplicated list
    addons_result,        \* parse's addons dict (a set of <<name, value>> pairs)
    raised,               \* the exception that left parse, or "none"
    resolved,             \* [pumpfun, raydium]: the two resolvers' results on parse's output
    xs,                   \* input of deduplicate_instructions when run on its own
    once,                 \* deduplicate_instructions(xs)
    twice,                \* deduplicate_instructions(once)
    dpc,                  \* "off", "in", "once", "twice"
    events,               \* input list of the resolvers when run on their own
    rres,                 \* [pumpfun, raydium]: the resolvers' results on events
    rpc,                  \* "off", "in", "out"
    geyser,               \* the Geyser-style response handed to the streaming-feed normalizer
    normalized,           \* the Transaction the normalizer returns
    npc                   \* "off", "in", "out"

vars == <<tx, pc, idx, parsed_instructions, dedup_instructions, addons_result, raised,
          resolved, xs, once, twice, dpc, events, rres, rpc, geyser, normalized, npc>>

parseVars == <<tx, pc, idx, parsed_instructions, dedup_instructions, addons_result, raised, resolved>>
dedupVars == <<xs, once, twice, dpc>>
resolveVars == <<events, rres, rpc>>
normVars == <<geyser, normalized, npc>>

(***************************************************************************)
(* Bounds of the model.                                                    *)
(***************************************************************************)
MaxLen == 4        \* weight of the largest list handed to deduplicate_instructions on its own
MaxInstr == 2      \* most top-level instructions of a transaction
MaxEvents == 3     \* longest event list handed to the resolvers on their own
MaxKeys == 2       \* most addresses in each address list handed to the normalizer

(***************************************************************************)
(* Python values.                                                          *)
(***************************************************************************)
None == [class |-> "NoneType"]
PyList(s) == [class |-> "list", items |-> s]
Raise(e) == [class |-> "Raise", exc |-> e]
IsRaise(v) == v.class = "Raise"
Some(v) == <<v>>
Nothing == <<>>

\* A dataclass constructor: keyword arguments that are not exactly the fields of the
\* class are a TypeError (unexpected keyword, or missing required argument).
New(class, module, fields, kw) ==
    IF DOMAIN kw = fields THEN [class |-> class, module |-> module] @@ kw
    ELSE Raise("TypeError")

\* Fields of the ParsedInstruction base class.
BaseFields == {"program_id", "program_name", "instruction_name"}
\* Fields of mortem.Buy and mortem.Sell.
TradeFields == BaseFields \cup
    {"signature", "who", "from_token", "from_token_decimals", "to_token",
     "to_token_decimals", "from_token_amount", "to_token_amount"}
\* Fields of raydiumAMM.Swap.
SwapFields == TradeFields \cup
    {"minimum_amount_out", "pre_token_balance", "post_token_balance",
     "pre_sol_balance", "post_sol_balance"}
\* Fields of unknown.Unknown.
UnknownFields == BaseFields \cup {"instruction_index"}

(***************************************************************************)
(* Program constants.                                                      *)
(***************************************************************************)
WSOL_MINT == "So11111111111111111111111111111111111111112"
SOL_MINT == "11111111111111111111111111111111"
SOL_DECIMALS == 9
PUMPFUN_PROGRAM_ID == "6EF8rrecthR5Dkzon8Nwu78hRvfCKubJ14M5uBEwF6P"
RAYDIUM_AMM_PROGRAM_ID == "675kPX9MHTjS2zt1qfr1NYHuzeLXfQM9H24wFSUt1Mp8"
MORTEM_PROGRAM_ID == "FAdo9NCw1ssek6Z6yeWzWjhLVsr8uiCwcWNUnKgzTnHe"
TOKEN_PROGRAM_ID == "TokenkegQfeZyiNwAJbNbGKPFXCWuBvf9Ss623VQ5DA"
BLACKLIST_PROGRAM_IDS == {"111111111111111111111111111111111",
                          "ATokenGPvbdGVxr1b2hvZbsiqW5xWH25efTNsLJA8knL"}

(***************************************************************************)
(* deduplicate_instructions (parser/__init__.py).                          *)
(***************************************************************************)
\* The generator handed to chain.from_iterable: the items that are not None, a list
\* as itself and anything else as a one-element list, chained one level deep.
RECURSIVE flat_iter(_)
flat_iter(instructions) ==
    IF instructions = <<>> THEN <<>>
    ELSE LET item == Head(instructions) IN
         IF item = None THEN flat_iter(Tail(instructions))
         ELSE (IF item.class = "list" THEN item.items ELSE <<item>>)
              \o flat_iter(Tail(instructions))

\* The key tuple of a Buy / Sell / Swap instance.
dedup_key_with_program(ins) ==
    <<ins.program_id, ins.program_name, ins.signature, ins.instruction_name, ins.who,
      ins.from_token, ins.to_token, ins.from_token_decimals, ins.to_token_decimals,
      ins.from_token_amount, ins.to_token_amount>>

dedup_key(ins) ==
    <<ins.signature, ins.instruction_name, ins.who, ins.from_token, ins.to_token,
      ins.from_token_decimals, ins.to_token_decimals,
      ins.from_token_amount, ins.to_token_amount>>

\* The loop with a key that is never remembered.
RECURSIVE dedup_loop_forgets(_, _, _)
dedup_loop_forgets(flat, seen, deduped) ==
    IF flat = <<>> THEN deduped
    ELSE LET ins == Head(flat) IN
         IF ins.class \in {"Buy", "Sell", "Swap"}
         THEN IF dedup_key(ins) \in seen
              THEN dedup_loop_forgets(Tail(flat), seen, deduped)
              ELSE dedup_loop_forgets(Tail(flat), seen, Append(deduped, ins))
         ELSE dedup_loop_forgets(Tail(flat), seen, Append(deduped, ins))

\* The loop that puts each kept instruction in front.
RECURSIVE dedup_loop_prepends(_, _, _)
dedup_loop_prepends(flat, seen, deduped) ==
    IF flat = <<>> THEN deduped
    ELSE LET ins == Head(flat) IN
         IF ins.class \in {"Buy", "Sell", "Swap"}
         THEN IF dedup_key(ins) \in seen
              THEN dedup_loop_prepends(Tail(flat), seen, deduped)
              ELSE dedup_loop_prepends(Tail(flat), seen \cup {dedup_key(ins)},
                                       <<ins>> \o deduped)
         ELSE dedup_loop_prepends(Tail(flat), seen, <<ins>> \o deduped)

\* The single loop over flat_iter with the seen set and the deduped list.
RECURSIVE dedup_loop(_, _, _)
dedup_loop(flat, seen, deduped) ==
    IF flat = <<>> THEN deduped
    ELSE LET ins == Head(flat) IN
         IF ins.class \in {"Buy", "Sell", "Swap"}
         THEN IF dedup_key(ins) \in seen
              THEN dedup_loop(Tail(flat), seen, deduped)
              ELSE dedup_loop(Tail(flat), seen \cup {dedup_key(ins)}, Append(deduped, ins))
         ELSE dedup_loop(Tail(flat), seen, Append(deduped, ins))

\* The flattened list with nothing removed.
keep_every_instruction(instructions) == flat_iter(instructions)

deduplicate_instructions(instructions) == dedup_loop(flat_iter(instructions), {}, <<>>)

(***************************************************************************)
(* Bytes, encoded strings and the Transaction data model.                  *)
(*                                                                         *)
(* bytes are sequences of 0..255.  An encoded string is a record           *)
(* [b58, b64]: what base58.decode and base64.b64decode return for it, each *)
(* Some(bytes) or Nothing when that codec rejects the string.              *)
(* A TokenBalance is [accountIndex, mint, owner, amount, decimals], an     *)
(* inner instruction [programIdIndex, data, accounts], an inner group      *)
(* [index, instructions], a log line [text, payload].                      *)
(***************************************************************************)
Min(a, b) == IF a < b THEN a ELSE b

\* Python b[lo:hi] for 0 <= lo <= hi (the slice is cut at the end of b).
Slice(b, lo, hi) == SubSeq(b, lo + 1, Min(hi, Len(b)))

\* int.from_bytes(b, byteorder="little", signed=False)
RECURSIVE from_bytes(_)
from_bytes(b) == IF b = <<>> THEN 0 ELSE Head(b) + 256 * from_bytes(Tail(b))

\* Python seq[i] for i >= 0 and seq[-k]: Some(element), or Nothing for an IndexError.
At(seq, i) == IF i >= 0 /\ i < Len(seq) THEN Some(seq[i + 1]) ELSE Nothing
FromEnd(seq, k) == IF k <= Len(seq) THEN Some(seq[Len(seq) - k + 1]) ELSE Nothing

\* tx.all_accounts: the full account list.
all_accounts(t) == t.accountKeys \o t.writable \o t.readonly

\* try base58.decode(data) except: base64.b64decode(data); Nothing when both raise.
decode_data(data) == IF data.b58 # Nothing THEN data.b58 ELSE data.b64

\* str(PubKey) of 32 bytes: the model's addresses are numbered by the last byte.
Addresses == <<"Wallet", "SrcAcct", "DstAcct", "Vault", "MintM", WSOL_MINT, "Other">>
pubkey_str(b) == IF b[32] < Len(Addresses) THEN Addresses[b[32] + 1] ELSE "Other"

\* SwapData.decode(raw): mint (32 bytes), sol_amount (u64), token_amount (u64),
\* is_buy (1 byte, 0 or 1), user (32 bytes); Nothing when the decoder raises.
SwapData_decode(raw) ==
    IF Len(raw) < 81 \/ raw[49] \notin {0, 1} THEN Nothing
    ELSE Some([mint |-> pubkey_str(Slice(raw, 0, 32)),
               sol_amount |-> from_bytes(Slice(raw, 32, 40)),
               token_amount |-> from_bytes(Slice(raw, 40, 48)),
               is_buy |-> raw[49] = 1,
               user |-> pubkey_str(Slice(raw, 49, 81))])

\* TokenProgramParser.route_instruction(tx, in_instr): Transfer (tag 3) and
\* TransferChecked (tag 12) carry to and amount; other tags are other instructions.
Token_route_instruction(t, in_instr) ==
    LET d == decode_data(in_instr.data) IN
    IF d = Nothing \/ d[1] = <<>> THEN Raise("ValueError")
    ELSE LET raw == d[1]
             tag == raw[1]
             toPos == IF tag = 3 THEN 1 ELSE 2
             toIdx == At(in_instr.accounts, toPos)
         IN  IF tag \notin {3, 12} THEN [class |-> "TokenInstruction", instruction_name |-> "Other"]
             ELSE IF toIdx = Nothing \/ At(all_accounts(t), toIdx[1]) = Nothing
                  THEN Raise("IndexError")
             ELSE [class |-> IF tag = 3 THEN "Transfer" ELSE "TransferChecked",
                   instruction_name |-> IF tag = 3 THEN "Transfer" ELSE "TransferChecked",
                   to |-> At(all_accounts(t), toIdx[1])[1],
                   amount |-> from_bytes(Slice(raw, 1, 9))]

(***************************************************************************)
(* RaydiumAMM parser (parsers/raydiumAMM.py).                              *)
(***************************************************************************)
\* next((int(tb.uiTokenAmount.amount) for tb in tbs if tb.accountIndex == i), None)
RECURSIVE first_balance(_, _)
first_balance(tbs, i) ==
    IF tbs = <<>> THEN Nothing
    ELSE IF Head(tbs).accountIndex = i THEN Some(Head(tbs).amount)
    ELSE first_balance(Tail(tbs), i)

\* balances[i] if i < len(balances) else None
sol_balance(balances, i) == IF i < Len(balances) THEN Some(balances[i + 1]) ELSE Nothing

\* The loop over combined_tb: the last balance of user_source sets the from side, the
\* last balance of user_destination (when it is not user_source) the to side.
RECURSIVE token_sides(_, _, _, _, _)
token_sides(t, tbs, user_source, user_destination, acc) ==
    IF tbs = <<>> THEN acc
    ELSE LET tb == Head(tbs)
             token_account == At(all_accounts(t), tb.accountIndex)
         IN  IF token_account = Nothing THEN Raise("IndexError")
             ELSE IF token_account[1] = user_source
                  THEN token_sides(t, Tail(tbs), user_source, user_destination,
                           [acc EXCEPT !.from_token = tb.mint, !.from_token_decimals = tb.decimals])
             ELSE IF token_account[1] = user_destination
                  THEN token_sides(t, Tail(tbs), user_source, user_destination,
                           [acc EXCEPT !.to_token = tb.mint, !.to_token_decimals = tb.decimals])
             ELSE token_sides(t, Tail(tbs), user_source, user_destination, acc)

default_sides ==
    [class |-> "sides", from_token |-> WSOL_MINT, from_token_decimals |-> SOL_DECIMALS,
     to_token |-> WSOL_MINT, to_token_decimals |-> SOL_DECIMALS]

\* The instructions of the first inner group whose index is instruction_index.
RECURSIVE first_group(_, _)
first_group(groups, instruction_index) ==
    IF groups = <<>> THEN <<>>
    ELSE IF Head(groups).index = instruction_index THEN Head(groups).instructions
    ELSE first_group(Tail(groups), instruction_index)

\* The scan stopped after the first matching group.
only_first_group(groups, instruction_index) == first_group(groups, instruction_index)

\* The instructions of every inner group whose index is instruction_index.
RECURSIVE all_groups(_, _)
all_groups(groups, instruction_index) ==
    IF groups = <<>> THEN <<>>
    ELSE (IF Head(groups).index = instruction_index THEN Head(groups).instructions ELSE <<>>)
         \o all_groups(Tail(groups), instruction_index)

\* The loop over inner_instrs: the amount of the last TokenProgram Transfer or
\* TransferChecked to user_destination, starting from amount; a Raise when a lookup or
\* the TokenProgram parser raises.
RECURSIVE transfer_amount(_, _, _, _)
transfer_amount(t, inner_instrs, user_destination, amount) ==
    IF inner_instrs = <<>> THEN amount
    ELSE LET in_instr == Head(inner_instrs)
             prog_id == At(all_accounts(t), in_instr.programIdIndex)
         IN  IF prog_id = Nothing THEN Raise("IndexError")
             ELSE IF prog_id[1] # TOKEN_PROGRAM_ID
                  THEN transfer_amount(t, Tail(inner_instrs), user_destination, amount)
             ELSE LET action == Token_route_instruction(t, in_instr) IN
                  IF IsRaise(action) THEN action
                  ELSE IF action.instruction_name \in {"Transfer", "TransferChecked"}
                          /\ action.to = user_destination
                       THEN transfer_amount(t, Tail(inner_instrs), user_destination,
                                            [class |-> "int", v |-> action.amount])
                  ELSE transfer_amount(t, Tail(inner_instrs), user_destination, amount)

\* A lookup that never finds the account in post_wsol.
post_wsol_get_missing(post, i, dflt) == dflt

\* post_wsol.get(i, dflt): the amount of the last WSOL post balance of account i.
RECURSIVE post_wsol_get(_, _, _)
post_wsol_get(post, i, dflt) ==
    IF post = <<>> THEN dflt
    ELSE LET tb == Head(post) IN
         post_wsol_get(Tail(post), i,
                       IF tb.mint = WSOL_MINT /\ tb.accountIndex = i THEN tb.amount ELSE dflt)

\* The loop over preTokenBalances: the largest strictly positive WSOL pre - post delta
\* (the first one among equals) and the decimals of its balance.
RECURSIVE wsol_candidate(_, _, _)
wsol_candidate(pre, post, cand) ==
    IF pre = <<>> THEN cand
    ELSE LET tb == Head(pre)
             delta == tb.amount - post_wsol_get(post, tb.accountIndex, tb.amount)
         IN  IF tb.mint = WSOL_MINT /\ delta > cand.amount
             THEN wsol_candidate(Tail(pre), post, [amount |-> delta, decimals |-> tb.decimals])
             ELSE wsol_candidate(Tail(pre), post, cand)

\* The ray_log field read one u64 too early, at bytes 1..9.
ray_log_value_at_1(decoded_log) == from_bytes(Slice(decoded_log, 1, 9))

\* int.from_bytes(decoded_log[9:17], "little")
ray_log_value(decoded_log) == from_bytes(Slice(decoded_log, 9, 17))

\* The loop over logMessages: the u64 at bytes 9..17 of the first ray_log line whose
\* base58 payload has at least 17 bytes and a non-zero value there; 0 when there is none.
RECURSIVE ray_log_amount(_)
ray_log_amount(logs) ==
    IF logs = <<>> THEN 0
    ELSE LET log == Head(logs) IN
         IF log.text = "ray_log:" /\ log.payload.b58 # Nothing
            /\ Len(log.payload.b58[1]) >= 17
            /\ ray_log_value(log.payload.b58[1]) > 0
         THEN ray_log_value(log.payload.b58[1])
         ELSE ray_log_amount(Tail(logs))

\* process_Swap that takes the signature from the end of the list.
Raydium_new_swap_last_signature(t, kw) ==
    New("Swap", "raydiumAMM", SwapFields,
        [kw EXCEPT !.signature = t.signatures[Len(t.signatures)]])

\* The Swap(...) call that ends process_Swap.
Raydium_new_swap(t, kw) == New("Swap", "raydiumAMM", SwapFields, kw)

\* _RaydiumAMMParser.process_Swap(tx, instruction_index, decoded_data)
process_Swap(t, instruction_index) ==
    LET instr == t.instructions[instruction_index + 1]
        accounts == instr.accounts
        decoded == decode_data(instr.data)
        a3 == FromEnd(accounts, 3)
        a2 == FromEnd(accounts, 2)
        a1 == FromEnd(accounts, 1)
    IN
    IF decoded = Nothing THEN Raise("ValueError")
    ELSE IF a3 = Nothing \/ At(all_accounts(t), a3[1]) = Nothing
            \/ At(all_accounts(t), a2[1]) = Nothing \/ At(all_accounts(t), a1[1]) = Nothing
         THEN Raise("IndexError")
    ELSE
    LET decoded_data == decoded[1]
        amount_in == from_bytes(Slice(decoded_data, 1, 9))
        minimum_amount_out == from_bytes(Slice(decoded_data, 9, 17))
        user_source == At(all_accounts(t), a3[1])[1]
        user_destination == At(all_accounts(t), a2[1])[1]
        who == At(all_accounts(t), a1[1])[1]
        sides == token_sides(t, t.preTokenBalances \o t.postTokenBalances,
                             user_source, user_destination, default_sides)
        inner_instrs == first_group(t.innerInstructions, instruction_index)
        inner_amount == transfer_amount(t, inner_instrs, user_destination,
                                        [class |-> "int", v |-> 0])
    IN
    IF IsRaise(sides) THEN sides
    ELSE IF IsRaise(inner_amount) THEN inner_amount
    ELSE
    LET sell_fixup == sides.to_token = WSOL_MINT /\ inner_amount.v = 0
        cand == wsol_candidate(t.preTokenBalances, t.postTokenBalances,
                               [amount |-> 0, decimals |-> SOL_DECIMALS])
        logged == ray_log_amount(t.logMessages)
        to_token_amount ==
            IF ~sell_fixup THEN inner_amount.v
            ELSE IF cand.amount > 0 THEN cand.amount
            ELSE IF logged > 0 THEN logged
            ELSE inner_amount.v
        to_token_decimals ==
            IF sell_fixup /\ cand.amount > 0 THEN cand.decimals ELSE sides.to_token_decimals
    IN
    Raydium_new_swap(t,
        [program_id |-> RAYDIUM_AMM_PROGRAM_ID, program_name |-> "RaydiumAMM",
         instruction_name |-> "Swap", who |-> who,
         from_token |-> sides.from_token, from_token_amount |-> amount_in,
         from_token_decimals |-> sides.from_token_decimals,
         to_token |-> sides.to_token, to_token_amount |-> to_token_amount,
         to_token_decimals |-> to_token_decimals,
         minimum_amount_out |-> minimum_amount_out,
         signature |-> t.signatures[1],
         pre_token_balance |-> first_balance(t.preTokenBalances, a3[1]),
         post_token_balance |-> first_balance(t.postTokenBalances, a3[1]),
         pre_sol_balance |-> sol_balance(t.preBalances, a1[1]),
         post_sol_balance |-> sol_balance(t.postBalances, a1[1])])

(***************************************************************************)
(* Mortem parser (parsers/mortem.py).                                      *)
(***************************************************************************)
\* The scan of _parse_swap and of the fallback's _parse_swap_from_inner over a list of
\* inner instructions: a (swap, origin) pair for every instruction of an allowed program
\* whose payload decodes, has at least 48 bytes and holds a SwapData after 16 bytes.
RECURSIVE scan_swaps(_, _, _, _)
scan_swaps(t, inner_instrs, allowed_program_ids, result_list) ==
    IF inner_instrs = <<>> THEN PyList(result_list)
    ELSE LET in_instr == Head(inner_instrs)
             sub_prog_id == At(all_accounts(t), in_instr.programIdIndex)
             raw_data == decode_data(in_instr.data)
             rest == Tail(inner_instrs)
         IN  IF sub_prog_id = Nothing THEN Raise("IndexError")
             ELSE IF sub_prog_id[1] \notin allowed_program_ids
                  THEN scan_swaps(t, rest, allowed_program_ids, result_list)
             ELSE IF raw_data = Nothing
                  THEN scan_swaps(t, rest, allowed_program_ids, result_list)
             ELSE IF Len(raw_data[1]) < 48
                  THEN scan_swaps(t, rest, allowed_program_ids, result_list)
             ELSE LET swap_obj == SwapData_decode(Slice(raw_data[1], 16, Len(raw_data[1]))) IN
                  IF swap_obj = Nothing
                  THEN scan_swaps(t, rest, allowed_program_ids, result_list)
                  ELSE scan_swaps(t, rest, allowed_program_ids,
                           Append(result_list, [swap |-> swap_obj[1], origin |-> sub_prog_id[1]]))

\* _MortemParser._parse_swap(tx, instruction_index)
Mortem_parse_swap(t, instruction_index) ==
    scan_swaps(t, all_groups(t.innerInstructions, instruction_index),
               {MORTEM_PROGRAM_ID, PUMPFUN_PROGRAM_ID}, <<>>)

\* _get_token_decimals(tx, mint) of the Mortem parser and of the fallback: 9 for WSOL,
\* else the decimals of the first pre or post token balance of the mint, else ValueError.
RECURSIVE first_decimals(_, _)
first_decimals(tbs, mint) ==
    IF tbs = <<>> THEN Raise("ValueError")
    ELSE IF Head(tbs).mint = mint THEN [class |-> "int", v |-> Head(tbs).decimals]
    ELSE first_decimals(Tail(tbs), mint)

\* The decimals of the first token balance, whatever its mint.
decimals_of_first_balance(t, mint) ==
    IF t.preTokenBalances \o t.postTokenBalances = <<>> THEN Raise("ValueError")
    ELSE [class |-> "int", v |-> Head(t.preTokenBalances \o t.postTokenBalances).decimals]

get_token_decimals(t, mint) ==
    IF mint = WSOL_MINT THEN [class |-> "int", v |-> SOL_DECIMALS]
    ELSE first_decimals(t.preTokenBalances \o t.postTokenBalances, mint)

\* The first record of a swap list with the given is_buy flag, or Nothing.
\* The last record of the kind instead of the first.
RECURSIVE last_swap(_, _)
last_swap(swap_list, is_buy) ==
    IF swap_list = <<>> THEN Nothing
    ELSE IF swap_list[Len(swap_list)].swap.is_buy = is_buy
         THEN Some(swap_list[Len(swap_list)])
    ELSE last_swap(SubSeq(swap_list, 1, Len(swap_list) - 1), is_buy)

RECURSIVE first_swap(_, _)
first_swap(swap_list, is_buy) ==
    IF swap_list = <<>> THEN Nothing
    ELSE IF Head(swap_list).swap.is_buy = is_buy THEN Some(Head(swap_list))
    ELSE first_swap(Tail(swap_list), is_buy)

\* _MortemParser.parse_buy(tx, instruction_index, decoded_data)
Mortem_parse_buy(t, instruction_index) ==
    LET swap_list == Mortem_parse_swap(t, instruction_index) IN
    IF IsRaise(swap_list) THEN swap_list
    ELSE LET found == first_swap(swap_list.items, TRUE) IN
    IF found = Nothing THEN Raise("ValueError")
    ELSE LET buy_data == found[1].swap
             to_decimals == get_token_decimals(t, buy_data.mint)
         IN  IF IsRaise(to_decimals) THEN to_decimals
             ELSE New("Buy", "mortem", TradeFields,
                      [signature |-> t.signatures[1], program_id |-> MORTEM_PROGRAM_ID,
                       program_name |-> "Mortem", instruction_name |-> "Buy",
                       who |-> buy_data.user, from_token |-> WSOL_MINT,
                       from_token_decimals |-> SOL_DECIMALS, to_token |-> buy_data.mint,
                       to_token_decimals |-> to_decimals.v,
                       from_token_amount |-> buy_data.sol_amount,
                       to_token_amount |-> buy_data.token_amount])

\* _MortemParser.parse_sell(tx, instruction_index, decoded_data)
Mortem_parse_sell(t, instruction_index) ==
    LET swap_list == Mortem_parse_swap(t, instruction_index) IN
    IF IsRaise(swap_list) THEN swap_list
    ELSE LET found == first_swap(swap_list.items, FALSE) IN
    IF found = Nothing THEN Raise("ValueError")
    ELSE LET sell_data == found[1].swap
             from_decimals == get_token_decimals(t, sell_data.mint)
         IN  IF IsRaise(from_decimals) THEN from_decimals
             ELSE New("Sell", "mortem", TradeFields,
                      [signature |-> t.signatures[1], program_id |-> MORTEM_PROGRAM_ID,
                       program_name |-> "Mortem", instruction_name |-> "Sell",
                       who |-> sell_data.user, from_token |-> sell_data.mint,
                       from_token_decimals |-> from_decimals.v, to_token |-> WSOL_MINT,
                       to_token_decimals |-> SOL_DECIMALS,
                       from_token_amount |-> sell_data.token_amount,
                       to_token_amount |-> sell_data.sol_amount])

\* _MortemParser.parse_default(tx, instruction_index, decoded_data)
Mortem_parse_default(t, instruction_index) ==
    LET swap_list == Mortem_parse_swap(t, instruction_index) IN
    IF IsRaise(swap_list) THEN swap_list
    ELSE IF first_swap(swap_list.items, TRUE) # Nothing THEN Mortem_parse_buy(t, instruction_index)
    ELSE IF first_swap(swap_list.items, FALSE) # Nothing THEN Mortem_parse_sell(t, instruction_index)
    ELSE Raise("ValueError")

(***************************************************************************)
(* Unknown-program fallback (parsers/unknown.py).                          *)
(***************************************************************************)
\* The instructions of all inner groups, in order.
RECURSIVE all_inner(_)
all_inner(groups) ==
    IF groups = <<>> THEN <<>> ELSE Head(groups).instructions \o all_inner(Tail(groups))

\* UnknownParser._parse_swap_from_inner(tx)
Unknown_parse_swap_from_inner(t) ==
    scan_swaps(t, all_inner(t.innerInstructions),
               {PUMPFUN_PROGRAM_ID, RAYDIUM_AMM_PROGRAM_ID}, <<>>)

\* UnknownParser._parse_swap_from_instructions(tx): the same scan over the top-level
\* instructions, the program looked up in message.accountKeys.
RECURSIVE scan_swaps_top(_, _, _)
scan_swaps_top(t, instrs, events_) ==
    IF instrs = <<>> THEN PyList(events_)
    ELSE LET instr == Head(instrs)
             sub_prog_id == At(t.accountKeys, instr.programIdIndex)
             raw_data == decode_data(instr.data)
             rest == Tail(instrs)
         IN  IF sub_prog_id = Nothing THEN Raise("IndexError")
             ELSE IF sub_prog_id[1] \notin {PUMPFUN_PROGRAM_ID, RAYDIUM_AMM_PROGRAM_ID}
                  THEN scan_swaps_top(t, rest, events_)
             ELSE IF raw_data = Nothing THEN scan_swaps_top(t, rest, events_)
             ELSE IF Len(raw_data[1]) < 48 THEN scan_swaps_top(t, rest, events_)
             ELSE LET swap_obj == SwapData_decode(Slice(raw_data[1], 16, Len(raw_data[1]))) IN
                  IF swap_obj = Nothing THEN scan_swaps_top(t, rest, events_)
                  ELSE scan_swaps_top(t, rest,
                           Append(events_, [swap |-> swap_obj[1], origin |-> sub_prog_id[1]]))

Unknown_parse_swap_from_instructions(t) == scan_swaps_top(t, t.instructions, <<>>)

\* The key process_unknown builds for a (swap, origin) pair; a Raise when the mint has
\* no decimals.
unknown_event_key(t, ev) ==
    LET swap == ev.swap
        dec == get_token_decimals(t, swap.mint)
    IN  IF IsRaise(dec) THEN dec
        ELSE IF swap.is_buy
             THEN [class |-> "key",
                   k |-> <<t.signatures[1], ev.origin, "Buy", swap.user, WSOL_MINT, SOL_DECIMALS,
                           swap.mint, dec.v, swap.sol_amount, swap.token_amount>>]
             ELSE [class |-> "key",
                   k |-> <<t.signatures[1], ev.origin, "Sell", swap.user, swap.mint, dec.v,
                           WSOL_MINT, SOL_DECIMALS, swap.token_amount, swap.sol_amount>>]

\* The loop that builds unique_events from allowed_events.
RECURSIVE unique_events_loop(_, _, _, _)
unique_events_loop(t, allowed_events, seen, unique_events) ==
    IF allowed_events = <<>> THEN unique_events
    ELSE LET ev == Head(allowed_events)
             key == unknown_event_key(t, ev)
         IN  IF IsRaise(key) THEN unique_events_loop(t, Tail(allowed_events), seen, unique_events)
             ELSE IF key.k \in seen
                  THEN unique_events_loop(t, Tail(allowed_events), seen, unique_events)
             ELSE unique_events_loop(t, Tail(allowed_events), seen \cup {key.k},
                                     Append(unique_events, ev))

\* The amount of the last balance of tbs with the mint and the owner, 0 when none.
RECURSIVE owner_balance(_, _, _, _)
owner_balance(tbs, mint, owner, amount) ==
    IF tbs = <<>> THEN amount
    ELSE owner_balance(Tail(tbs), mint, owner,
                       IF Head(tbs).mint = mint /\ Head(tbs).owner = owner
                       THEN Head(tbs).amount ELSE amount)

\* UnknownParser._build_buy(tx, swap, origin_program_id): the Buy of mortem.py is
\* called with four balance keywords it does not declare.
Unknown_build_buy(t, swap, origin_program_id) ==
    LET to_decimals == get_token_decimals(t, swap.mint) IN
    IF IsRaise(to_decimals) THEN to_decimals
    ELSE New("Buy", "mortem", TradeFields,
             [signature |-> t.signatures[1], program_id |-> origin_program_id,
              program_name |-> "PumpFun", instruction_name |-> "Buy",
              who |-> swap.user, from_token |-> WSOL_MINT,
              from_token_decimals |-> SOL_DECIMALS, to_token |-> swap.mint,
              to_token_decimals |-> to_decimals.v,
              from_token_amount |-> swap.sol_amount, to_token_amount |-> swap.token_amount,
              pre_token_balance |-> owner_balance(t.preTokenBalances, swap.mint, swap.user, 0),
              post_token_balance |-> owner_balance(t.postTokenBalances, swap.mint, swap.user, 0),
              pre_sol_balance |-> owner_balance(t.preTokenBalances, WSOL_MINT, swap.user, 0),
              post_sol_balance |-> owner_balance(t.postTokenBalances, WSOL_MINT, swap.user, 0)])

\* UnknownParser._build_sell(tx, swap, origin_program_id): as _build_buy, for the Sell
\* of mortem.py.
Unknown_build_sell(t, swap, origin_program_id) ==
    LET from_decimals == get_token_decimals(t, swap.mint) IN
    IF IsRaise(from_decimals) THEN from_decimals
    ELSE New("Sell", "mortem", TradeFields,
             [signature |-> t.signatures[1], program_id |-> origin_program_id,
              program_name |-> "PumpFun", instruction_name |-> "Sell",
              who |-> swap.user, from_token |-> swap.mint,
              from_token_decimals |-> from_decimals.v, to_token |-> WSOL_MINT,
              to_token_decimals |-> SOL_DECIMALS,
              from_token_amount |-> swap.token_amount, to_token_amount |-> swap.sol_amount,
              pre_token_balance |-> owner_balance(t.preTokenBalances, swap.mint, swap.user, 0),
              post_token_balance |-> owner_balance(t.postTokenBalances, swap.mint, swap.user, 0),
              pre_sol_balance |-> owner_balance(t.preTokenBalances, WSOL_MINT, swap.user, 0),
              post_sol_balance |-> owner_balance(t.postTokenBalances, WSOL_MINT, swap.user, 0)])

\* UnknownParser._parse_raydium_swap_from_instructions(tx): (decoded, index) for every
\* top-level RaydiumAMM instruction whose payload decodes to at least 17 bytes.
RECURSIVE raydium_scan_top(_, _, _, _)
raydium_scan_top(t, instrs, i, events_) ==
    IF instrs = <<>> THEN PyList(events_)
    ELSE LET instr == Head(instrs)
             prog == At(t.accountKeys, instr.programIdIndex)
             decoded_data == decode_data(instr.data)
         IN  IF prog = Nothing THEN Raise("IndexError")
             ELSE IF prog[1] # RAYDIUM_AMM_PROGRAM_ID
                  THEN raydium_scan_top(t, Tail(instrs), i + 1, events_)
             ELSE IF decoded_data = Nothing \/ Len(decoded_data[1]) < 17
                  THEN raydium_scan_top(t, Tail(instrs), i + 1, events_)
             ELSE raydium_scan_top(t, Tail(instrs), i + 1,
                                   Append(events_, [decoded |-> decoded_data[1], idx |-> i]))

Unknown_parse_raydium_swap_from_instructions(t) == raydium_scan_top(t, t.instructions, 0, <<>>)

\* The inner loop of _parse_raydium_swap_from_inner over one group.
RECURSIVE raydium_scan_group(_, _, _, _)
raydium_scan_group(t, inner_instrs, instr_index, events_) ==
    IF inner_instrs = <<>> THEN PyList(events_)
    ELSE LET in_instr == Head(inner_instrs)
             prog == At(all_accounts(t), in_instr.programIdIndex)
             decoded_data == decode_data(in_instr.data)
         IN  IF prog = Nothing THEN Raise("IndexError")
             ELSE IF prog[1] # RAYDIUM_AMM_PROGRAM_ID
                  THEN raydium_scan_group(t, Tail(inner_instrs), instr_index, events_)
             ELSE IF decoded_data = Nothing \/ Len(decoded_data[1]) < 17
                  THEN raydium_scan_group(t, Tail(inner_instrs), instr_index, events_)
             ELSE raydium_scan_group(t, Tail(inner_instrs), instr_index,
                      Append(events_, [decoded |-> decoded_data[1], idx |-> instr_index]))

\* UnknownParser._parse_raydium_swap_from_inner(tx)
RECURSIVE raydium_scan_inner(_, _, _)
raydium_scan_inner(t, groups, events_) ==
    IF groups = <<>> THEN PyList(events_)
    ELSE LET got == raydium_scan_group(t, Head(groups).instructions, Head(groups).index, events_) IN
         IF IsRaise(got) THEN got ELSE raydium_scan_inner(t, Tail(groups), got.items)

Unknown_parse_raydium_swap_from_inner(t) == raydium_scan_inner(t, t.innerInstructions, <<>>)

\* The loop that builds unique_raydium_events.
RECURSIVE unique_raydium_loop(_, _, _, _)
unique_raydium_loop(t, raydium_events, seen_raydium, unique) ==
    IF raydium_events = <<>> THEN unique
    ELSE LET ev == Head(raydium_events)
             key == <<t.signatures[1], ev.idx, from_bytes(Slice(ev.decoded, 1, 9)),
                      from_bytes(Slice(ev.decoded, 9, 17))>>
         IN  IF key \in seen_raydium
             THEN unique_raydium_loop(t, Tail(raydium_events), seen_raydium, unique)
             ELSE unique_raydium_loop(t, Tail(raydium_events), seen_raydium \cup {key},
                                      Append(unique, ev))

\* The keys of {tb.accountIndex: tb for tb in tbs}, in insertion order.
RECURSIVE dict_keys(_, _)
dict_keys(tbs, keys) ==
    IF tbs = <<>> THEN keys
    ELSE dict_keys(Tail(tbs),
                   IF \E k \in 1..Len(keys) : keys[k] = Head(tbs).accountIndex
                   THEN keys ELSE Append(keys, Head(tbs).accountIndex))

\* {tb.accountIndex: tb for tb in tbs}.get(i): the last balance of account i.
RECURSIVE dict_get(_, _, _)
dict_get(tbs, i, found) ==
    IF tbs = <<>> THEN found
    ELSE dict_get(Tail(tbs), i, IF Head(tbs).accountIndex = i THEN Some(Head(tbs)) ELSE found)

\* The first strictly positive difference instead of the largest.
RECURSIVE first_delta(_, _, _, _, _)
first_delta(keys, mine, pre, post, cand) ==
    IF keys = <<>> THEN cand
    ELSE LET index == Head(keys)
             pre_tb == dict_get(pre, index, Nothing)
             post_tb == dict_get(post, index, Nothing)
         IN  IF pre_tb = Nothing \/ post_tb = Nothing THEN first_delta(Tail(keys), mine, pre, post, cand)
             ELSE LET diff == IF mine = "pre" THEN pre_tb[1].amount - post_tb[1].amount
                                              ELSE post_tb[1].amount - pre_tb[1].amount
                  IN  IF diff > 0
                      THEN [amount |-> diff, tb |-> IF mine = "pre" THEN pre_tb ELSE post_tb]
                      ELSE first_delta(Tail(keys), mine, pre, post, cand)


\* One of the two loops of _infer_raydium_swap over the keys of one map: the balance of
\* mine with the largest strictly positive sign * (pre - post), the first among equals.
RECURSIVE best_delta(_, _, _, _, _)
best_delta(keys, mine, pre, post, cand) ==
    IF keys = <<>> THEN cand
    ELSE LET index == Head(keys)
             pre_tb == dict_get(pre, index, Nothing)
             post_tb == dict_get(post, index, Nothing)
         IN  IF pre_tb = Nothing \/ post_tb = Nothing THEN best_delta(Tail(keys), mine, pre, post, cand)
             ELSE LET diff == IF mine = "pre" THEN pre_tb[1].amount - post_tb[1].amount
                                              ELSE post_tb[1].amount - pre_tb[1].amount
                  IN  IF diff > cand.amount
                      THEN best_delta(Tail(keys), mine, pre, post,
                               [amount |-> diff,
                                tb |-> IF mine = "pre" THEN pre_tb ELSE post_tb])
                      ELSE best_delta(Tail(keys), mine, pre, post, cand)

\* tx.all_accounts.index(who), 0 when who is not in the list.
RECURSIVE index_of(_, _, _)
index_of(seq, v, i) ==
    IF seq = <<>> THEN 0 ELSE IF Head(seq) = v THEN i ELSE index_of(Tail(seq), v, i + 1)

\* UnknownParser._infer_raydium_swap(tx)
Unknown_infer_raydium_swap(t) ==
    IF t.preTokenBalances = <<>> /\ t.postTokenBalances = <<>> THEN Raise("ValueError")
    ELSE
    LET pre == t.preTokenBalances
        post == t.postTokenBalances
        drop == best_delta(dict_keys(pre, <<>>), "pre", pre, post, [amount |-> 0, tb |-> Nothing])
        rise == best_delta(dict_keys(post, <<>>), "post", pre, post, [amount |-> 0, tb |-> Nothing])
    IN
    IF drop.tb = Nothing \/ rise.tb = Nothing THEN Raise("ValueError")
    ELSE
    LET drop_candidate == drop.tb[1]
        increase_candidate == rise.tb[1]
        who == drop_candidate.owner
        wallet_account_index == index_of(all_accounts(t), who, 0)
    IN
    New("Swap", "raydiumAMM", SwapFields,
        [signature |-> t.signatures[1], program_id |-> RAYDIUM_AMM_PROGRAM_ID,
         program_name |-> "RaydiumAMM", instruction_name |-> "Swap", who |-> who,
         from_token |-> drop_candidate.mint, from_token_amount |-> drop.amount,
         from_token_decimals |-> drop_candidate.decimals,
         to_token |-> increase_candidate.mint,
         to_token_amount |-> rise.amount,
         to_token_decimals |-> increase_candidate.decimals,
         minimum_amount_out |-> 0,
         pre_token_balance |-> first_balance(pre, drop_candidate.accountIndex),
         post_token_balance |-> first_balance(post, drop_candidate.accountIndex),
         pre_sol_balance |-> sol_balance(t.preBalances, wallet_account_index),
         post_sol_balance |-> sol_balance(t.postBalances, wallet_account_index)])

\* UnknownParser._build_raydium_swap(tx, decoded_data, instruction_index)
Unknown_build_raydium_swap(t, decoded_data, instruction_index) ==
    IF decoded_data = <<>> \/ instruction_index < 0 THEN Unknown_infer_raydium_swap(t)
    ELSE
    LET amount_in == from_bytes(Slice(decoded_data, 1, 9))
        minimum_amount_out == from_bytes(Slice(decoded_data, 9, 17))
        accounts == IF instruction_index < Len(t.instructions)
                    THEN t.instructions[instruction_index + 1].accounts ELSE <<>>
        has3 == Len(accounts) >= 3
        all == all_accounts(t)
        looked == has3 /\ At(all, FromEnd(accounts, 3)[1]) # Nothing
                       /\ At(all, FromEnd(accounts, 2)[1]) # Nothing
                       /\ At(all, FromEnd(accounts, 1)[1]) # Nothing
    IN
    IF has3 /\ ~looked /\ all = <<>> THEN Raise("IndexError")
    ELSE
    LET who == IF looked THEN At(all, FromEnd(accounts, 1)[1])[1]
               ELSE IF all # <<>> THEN all[1] ELSE "unknown"
        user_source == IF looked THEN At(all, FromEnd(accounts, 3)[1])[1] ELSE who
        user_destination == IF looked THEN At(all, FromEnd(accounts, 2)[1])[1] ELSE who
        source_account_index == IF has3 THEN FromEnd(accounts, 3)[1] ELSE 0
        wallet_account_index == IF Len(accounts) >= 1 THEN FromEnd(accounts, 1)[1] ELSE 0
        sides == token_sides(t, t.preTokenBalances \o t.postTokenBalances,
                             user_source, user_destination, default_sides)
        inner_amount == transfer_amount(t, all_groups(t.innerInstructions, instruction_index),
                                        user_destination, [class |-> "int", v |-> 0])
    IN
    IF IsRaise(sides) THEN sides
    ELSE IF IsRaise(inner_amount) THEN inner_amount
    ELSE
    New("Swap", "raydiumAMM", SwapFields,
        [signature |-> t.signatures[1], program_id |-> RAYDIUM_AMM_PROGRAM_ID,
         program_name |-> "RaydiumAMM", instruction_name |-> "Swap", who |-> who,
         from_token |-> sides.from_token, from_token_amount |-> amount_in,
         from_token_decimals |-> sides.from_token_decimals,
         to_token |-> sides.to_token, to_token_amount |-> inner_amount.v,
         to_token_decimals |-> sides.to_token_decimals,
         minimum_amount_out |-> minimum_amount_out,
         pre_token_balance |-> first_balance(t.preTokenBalances, source_account_index),
         post_token_balance |-> first_balance(t.postTokenBalances, source_account_index),
         pre_sol_balance |-> sol_balance(t.preBalances, wallet_account_index),
         post_sol_balance |-> sol_balance(t.postBalances, wallet_account_index)])

\* The loop over unique_raydium_events: the first Swap that builds, Nothing when every
\* build raises.
RECURSIVE first_raydium_build(_, _)
first_raydium_build(t, unique) ==
    IF unique = <<>> THEN Nothing
    ELSE LET built == Unknown_build_raydium_swap(t, Head(unique).decoded, Head(unique).idx) IN
         IF IsRaise(built) THEN first_raydium_build(t, Tail(unique)) ELSE Some(built)

\* Whether some log line contains the text.
HasLog(t, text) == \E i \in 1..Len(t.logMessages) : t.logMessages[i].text = text

\* The Unknown(...) call that ends process_unknown.
Unknown_new_unknown(program_id, instruction_index) ==
    New("Unknown", "unknown", UnknownFields,
        [program_id |-> program_id, program_name |-> "Unknown",
         instruction_name |-> "Unknown", instruction_index |-> instruction_index])

\* The tail of process_unknown, after the PumpFun events gave nothing: the Raydium
\* payloads, the SwapRaydiumV4 log hint, the balance inference, Unknown.
Unknown_raydium_part(program_id, t, instruction_index) ==
    LET top == Unknown_parse_raydium_swap_from_instructions(t)
        inner == Unknown_parse_raydium_swap_from_inner(t)
    IN
    IF IsRaise(top) THEN top
    ELSE IF IsRaise(inner) THEN inner
    ELSE
    LET unique == unique_raydium_loop(t, top.items \o inner.items, {}, <<>>)
        built == first_raydium_build(t, unique)
        hinted == IF HasLog(t, "SwapRaydiumV4") THEN Unknown_build_raydium_swap(t, <<>>, -1)
                  ELSE Raise("none")
        inferred == Unknown_infer_raydium_swap(t)
    IN
    IF built # Nothing THEN built[1]
    ELSE IF ~IsRaise(hinted) THEN hinted
    ELSE IF ~IsRaise(inferred) THEN inferred
    ELSE Unknown_new_unknown(program_id, instruction_index)

\* UnknownParser(program_id).process_unknown(tx, instruction_index, decoded_data)
process_unknown(program_id, t, instruction_index) ==
    LET swap_events_inner == Unknown_parse_swap_from_inner(t)
        swap_events_instructions == Unknown_parse_swap_from_instructions(t)
    IN
    IF IsRaise(swap_events_inner) THEN swap_events_inner
    ELSE IF IsRaise(swap_events_instructions) THEN swap_events_instructions
    ELSE
    LET swap_events == swap_events_inner.items \o swap_events_instructions.items
        allowed_events == SelectSeq(swap_events, LAMBDA ev : ev.origin \notin BLACKLIST_PROGRAM_IDS)
        unique_events == unique_events_loop(t, allowed_events, {}, <<>>)
        buy == first_swap(unique_events, TRUE)
        sell == first_swap(unique_events, FALSE)
    IN
    IF buy # Nothing THEN Unknown_build_buy(t, buy[1].swap, buy[1].origin)
    ELSE IF sell # Nothing THEN Unknown_build_sell(t, sell[1].swap, sell[1].origin)
    ELSE Unknown_raydium_part(program_id, t, instruction_index)

(***************************************************************************)
(* Dispatch (Program.route) and the resolvers.                             *)
(***************************************************************************)
SYSTEM_PROGRAM_ID == "11111111111111111111111111111111"
COMPUTE_BUDGET_PROGRAM_ID == "ComputeBudget111111111111111111111111111111"

\* id_to_handler: the registered program ids and the name of their parser.
id_to_handler ==
    [p \in {SYSTEM_PROGRAM_ID, COMPUTE_BUDGET_PROGRAM_ID, TOKEN_PROGRAM_ID,
            RAYDIUM_AMM_PROGRAM_ID, PUMPFUN_PROGRAM_ID, MORTEM_PROGRAM_ID} |->
        CASE p = SYSTEM_PROGRAM_ID -> "SystemProgram"
          [] p = COMPUTE_BUDGET_PROGRAM_ID -> "ComputeBudget"
          [] p = TOKEN_PROGRAM_ID -> "TokenProgram"
          [] p = RAYDIUM_AMM_PROGRAM_ID -> "RaydiumAMM"
          [] p = PUMPFUN_PROGRAM_ID -> "PumpFun"
          [] p = MORTEM_PROGRAM_ID -> "Mortem"]

\* The event a parser's route returns for a payload it has no decoder for.
program_default(program_id, program_name, instruction_index) ==
    New("Unknown", "unknown", UnknownFields,
        [program_id |-> program_id, program_name |-> program_name,
         instruction_name |-> "Unknown", instruction_index |-> instruction_index])

\* Program.route(tx, instruction_index) of the parser chosen for program_id: decode the
\* payload, take the parser's discriminator, call the decoder desc_map has for it (or
\* its "default" entry) and return what the decoder returns or raises.
route(program_id, t, instruction_index) ==
    LET name == IF program_id \in DOMAIN id_to_handler THEN id_to_handler[program_id]
                ELSE "Unknown"
        decoded == decode_data(t.instructions[instruction_index + 1].data)
    IN
    IF decoded = Nothing THEN program_default(program_id, name, instruction_index)
    ELSE IF name = "Unknown" THEN process_unknown(program_id, t, instruction_index)
    ELSE IF name = "RaydiumAMM"
         THEN IF decoded[1] = <<>> THEN Raise("IndexError")
              ELSE IF decoded[1][1] = 9 THEN process_Swap(t, instruction_index)
              ELSE program_default(program_id, name, instruction_index)
    ELSE IF name = "Mortem"
         THEN IF Slice(decoded[1], 0, 4) = <<98, 117, 121, 0>>
              THEN Mortem_parse_buy(t, instruction_index)
              ELSE IF Slice(decoded[1], 0, 4) = <<115, 101, 108, 108>>
                   THEN Mortem_parse_sell(t, instruction_index)
              ELSE Mortem_parse_default(t, instruction_index)
    ELSE program_default(program_id, name, instruction_index)

\* Fields of pumpfun.Buy and pumpfun.Sell: those the PumpFun resolver reads.
PumpFunTradeFields == TradeFields \cup
    {"pre_token_balance", "post_token_balance", "pre_sol_balance", "post_sol_balance"}

\* x / 10**d, kept as the pair it is computed from.
Scaled(x, d) == [raw |-> x, decimals |-> d]
\* A balance taken as true whatever it holds.
Truthy_always(b) == TRUE

\* The truth value of an Optional[int] b in "... if b else None".
Truthy(b) == b # Nothing /\ b[1] # 0

\* int(b) / 10**d if b else None, for an Optional[int] b.
ScaledBalance(b, d) == IF ~Truthy(b) THEN Nothing ELSE Some(Scaled(b[1], d))

\* Whether int(b) of one of the four balances of instr is reached with b = None, which
\* is a TypeError.
int_of_None(instr) ==
    \E b \in {instr.pre_token_balance, instr.post_token_balance,
              instr.pre_sol_balance, instr.post_sol_balance} : Truthy(b) /\ b = Nothing

\* isinstance(i, (pumpfun.Buy, pumpfun.Sell))
IsPumpFunTrade(i) == i.class \in {"Buy", "Sell"} /\ i.module = "pumpfun"
\* isinstance(i, raydiumAMM.Swap)
IsRaydiumSwap(i) == i.class = "Swap" /\ i.module = "raydiumAMM"

\* An instruction name left as it is.
Lower_unchanged(nm) == nm

\* str.lower() of an instruction name.
Lower(nm) == CASE nm = "Buy" -> "buy" [] nm = "Sell" -> "sell" [] nm = "Swap" -> "swap"
               [] OTHER -> "unknown"

\* _PumpFunResolver.resolve(instructions)
PumpFun_resolve(instructions) ==
    LET instrs == SelectSeq(instructions, IsPumpFunTrade) IN
    IF Len(instrs) # 1 THEN None
    ELSE LET instr == instrs[1] IN
         IF int_of_None(instr) THEN Raise("TypeError") ELSE
         [class |-> "PumpFun", signature |-> instr.signature,
          type |-> Lower(instr.instruction_name), who |-> instr.who,
          from_token |-> instr.from_token,
          from_amount |-> Scaled(instr.from_token_amount, instr.from_token_decimals),
          to_token |-> instr.to_token,
          to_amount |-> Scaled(instr.to_token_amount, instr.to_token_decimals),
          pre_token_balance |-> ScaledBalance(instr.pre_token_balance, instr.from_token_decimals),
          post_token_balance |-> ScaledBalance(instr.post_token_balance, instr.from_token_decimals),
          pre_sol_balance |-> ScaledBalance(instr.pre_sol_balance, SOL_DECIMALS),
          post_sol_balance |-> ScaledBalance(instr.post_sol_balance, SOL_DECIMALS)]

\* The Raydium resolver that takes the first Swap whenever there is one.
Raydium_pick_first(instrs) == IF Len(instrs) >= 1 THEN SubSeq(instrs, 1, 1) ELSE instrs

\* The filter of the Raydium resolver: with more than one Swap, those with both amounts
\* positive.
Raydium_pick(instrs) ==
    IF Len(instrs) > 1
    THEN SelectSeq(instrs, LAMBDA i : i.to_token_amount > 0 /\ i.from_token_amount > 0)
    ELSE instrs

\* The type that looks at to_token before from_token.
Raydium_type_sell_first(instr) ==
    IF instr.to_token \in {WSOL_MINT, SOL_MINT} THEN "sell"
    ELSE IF instr.from_token \in {WSOL_MINT, SOL_MINT} THEN "buy"
    ELSE "swap"

\* raydium_type of the Raydium resolver.
Raydium_type(instr) ==
    IF instr.from_token \in {WSOL_MINT, SOL_MINT} THEN "buy"
    ELSE IF instr.to_token \in {WSOL_MINT, SOL_MINT} THEN "sell"
    ELSE "swap"

\* _RaydiumResolver.resolve(instructions)
Raydium_resolve(instructions) ==
    LET instrs == Raydium_pick(SelectSeq(instructions, IsRaydiumSwap)) IN
    IF Len(instrs) # 1 THEN None
    ELSE LET instr == instrs[1]
             raydium_type == Raydium_type(instr)
             token_decimals == IF raydium_type = "buy" THEN instr.to_token_decimals
                               ELSE instr.from_token_decimals
         IN
         IF int_of_None(instr) THEN Raise("TypeError") ELSE
         [class |-> "Raydium", type |-> raydium_type, who |-> instr.who,
          from_token |-> instr.from_token,
          from_amount |-> Scaled(instr.from_token_amount, instr.from_token_decimals),
          to_token |-> instr.to_token,
          to_amount |-> Scaled(instr.to_token_amount, instr.to_token_decimals),
          minimum_amount_out |-> Scaled(instr.minimum_amount_out, instr.to_token_decimals),
          signature |-> instr.signature,
          pre_token_balance |-> ScaledBalance(instr.pre_token_balance, token_decimals),
          post_token_balance |-> ScaledBalance(instr.post_token_balance, token_decimals),
          pre_sol_balance |-> ScaledBalance(instr.pre_sol_balance, SOL_DECIMALS),
          post_sol_balance |-> ScaledBalance(instr.post_sol_balance, SOL_DECIMALS)]

\* PLATFORM of the platform_identifier addon.
PLATFORM ==
    [a \in {"tro46jTMkb56A3wPepo5HT7JcvX9wFWvR8VaJzgdjEf",
            "9RYJ3qr5eU5xAooqVcbmdeusjcViL5Nkiq7Gske3tiKq",
            "AVUCZyuT35YSuj4RH7fwiyPu82Djn2Hfg7y2ND2XcnZH"} |->
        CASE a = "tro46jTMkb56A3wPepo5HT7JcvX9wFWvR8VaJzgdjEf" -> "Trojan"
          [] a = "9RYJ3qr5eU5xAooqVcbmdeusjcViL5Nkiq7Gske3tiKq" -> "BullX"
          [] a = "AVUCZyuT35YSuj4RH7fwiyPu82Djn2Hfg7y2ND2XcnZH" -> "Photon"]

\* platform_identifier.enrich(tx): (address, name) of the first address of the full
\* account list that is in PLATFORM, else the tuple (None, None).
RECURSIVE enrich_scan(_)
enrich_scan(addresses) ==
    IF addresses = <<>> THEN [class |-> "tuple", items |-> <<Nothing, Nothing>>]
    ELSE IF Head(addresses) \in DOMAIN PLATFORM
         THEN [class |-> "tuple",
               items |-> <<Some(Head(addresses)), Some(PLATFORM[Head(addresses)])>>]
    ELSE enrich_scan(Tail(addresses))

platform_identifier_enrich(t) == enrich_scan(all_accounts(t))

(***************************************************************************)
(* The streaming-feed normalizer (normalizer/normalizers/geyser.py) and    *)
(* make_readable (utils.py).  A base-64 text is the sequence of its        *)
(* characters' values 0..63, with 64 for the padding "="; a base-58 text   *)
(* is the sequence of its characters' values 0..57.                        *)
(***************************************************************************)
\* base64.b64decode(text) of a padded text.
RECURSIVE b64decode(_)
b64decode(text) ==
    IF Len(text) < 4 THEN <<>>
    ELSE LET c1 == text[1]
             c2 == text[2]
             c3 == text[3]
             c4 == text[4]
             first == <<c1 * 4 + (c2 \div 16)>>
         IN  IF c3 = 64 THEN first
             ELSE IF c4 = 64 THEN first \o <<(c2 % 16) * 16 + (c3 \div 4)>>
             ELSE first \o <<(c2 % 16) * 16 + (c3 \div 4), (c3 % 4) * 64 + c4>>
                  \o b64decode(SubSeq(text, 5, Len(text)))

\* The bytes as one big-endian number, and the base-58 digits of a number.
RECURSIVE big_endian(_)
big_endian(b) == IF b = <<>> THEN 0 ELSE big_endian(SubSeq(b, 1, Len(b) - 1)) * 256 + b[Len(b)]

RECURSIVE digits58(_)
digits58(n) == IF n = 0 THEN <<>> ELSE Append(digits58(n \div 58), n % 58)

RECURSIVE leading_zeros(_)
leading_zeros(b) == IF b = <<>> \/ Head(b) # 0 THEN 0 ELSE 1 + leading_zeros(Tail(b))

\* base58.encode(raw_bytes): one "1" (value 0) for every leading zero byte, then the
\* digits of the number.
b58encode(raw_bytes) ==
    [i \in 1..leading_zeros(raw_bytes) |-> 0] \o digits58(big_endian(raw_bytes))

\* make_readable(data)
make_readable(data) == b58encode(b64decode(data))

\* The list comprehension that returns the addresses last first.
RECURSIVE readable_list_reversed(_)
readable_list_reversed(l) ==
    IF l = <<>> THEN <<>>
    ELSE readable_list_reversed(Tail(l)) \o <<b58encode(b64decode(Head(l)))>>

\* [make_readable(_addr) for _addr in l]
RECURSIVE readable_list(_)
readable_list(l) == IF l = <<>> THEN <<>> ELSE <<make_readable(Head(l))>> \o readable_list(Tail(l))

\* The inner instruction of the returned Transaction.
geyser_inner_instr(in_instr) ==
    [programIdIndex |-> in_instr.programIdIndex, data |-> in_instr.data,
     accounts |-> b64decode(in_instr.accounts), stackHeight |-> in_instr.stackHeight]

geyser_inner_group(inner) ==
    [index |-> inner.index,
     instructions |-> [k \in 1..Len(inner.instructions) |->
                          geyser_inner_instr(inner.instructions[k])]]

\* geyser.normalize(tx): the fields of the returned Transaction that come from the
\* addresses and the inner instructions.
geyser_normalize(g) ==
    [class |-> "Transaction", slot |-> g.slot, blockTime |-> None,
     signatures |-> g.signatures,
     accountKeys |-> readable_list(g.accountKeys),
     writable |-> readable_list(g.loadedWritableAddresses),
     readonly |-> readable_list(g.loadedReadonlyAddresses),
     innerInstructions |-> [k \in 1..Len(g.innerInstructions) |->
                               geyser_inner_group(g.innerInstructions[k])]]

(***************************************************************************)
(* deduplicate_instructions on its own: inputs and steps.                  *)
(***************************************************************************)
MintM == "MintM"
Wallet == "Wallet"

SampleBuy(program_id, program_name, amount) ==
    New("Buy", "mortem", TradeFields,
        [program_id |-> program_id, program_name |-> program_name, instruction_name |-> "Buy",
         signature |-> "sig1", who |-> Wallet, from_token |-> WSOL_MINT,
         from_token_decimals |-> SOL_DECIMALS, to_token |-> MintM, to_token_decimals |-> 6,
         from_token_amount |-> 500, to_token_amount |-> amount])

SampleSwap ==
    New("Swap", "raydiumAMM", SwapFields,
        [program_id |-> RAYDIUM_AMM_PROGRAM_ID, program_name |-> "RaydiumAMM",
         instruction_name |-> "Swap",
         signature |-> "sig1", who |-> Wallet, from_token |-> WSOL_MINT,
         from_token_decimals |-> SOL_DECIMALS, to_token |-> MintM, to_token_decimals |-> 6,
         from_token_amount |-> 500, to_token_amount |-> 7000, minimum_amount_out |-> 1,
         pre_token_balance |-> Nothing, post_token_balance |-> Nothing,
         pre_sol_balance |-> Nothing, post_sol_balance |-> Nothing])

SampleUnknown ==
    New("Unknown", "unknown", UnknownFields,
        [program_id |-> "Unreg", program_name |-> "Unknown", instruction_name |-> "Unknown",
         instruction_index |-> 0])

\* Two Buys with one key and different program ids, a Buy with another amount, a Swap
\* that differs from the first Buy in instruction_name only, an Unknown, and None.
DedupLeaves ==
    {SampleBuy(MORTEM_PROGRAM_ID, "Mortem", 7000), SampleBuy(PUMPFUN_PROGRAM_ID, "PumpFun", 7000),
     SampleBuy(MORTEM_PROGRAM_ID, "Mortem", 7001), SampleSwap, SampleUnknown, None}

\* The lists of weight w: a leaf weighs 1, a nested list one more than its length.
RECURSIVE InputsOfWeight(_), NestedFirst(_, _)
InputsOfWeight(w) ==
    IF w = 0 THEN {<<>>}
    ELSE {<<l>> \o r : l \in DedupLeaves, r \in InputsOfWeight(w - 1)}
         \cup NestedFirst(w, w - 1)

\* The lists of weight w that start with a nested list of at most m events.
NestedFirst(w, m) ==
    IF m < 0 THEN {}
    ELSE {<<PyList(n)>> \o r : n \in [1..m -> DedupLeaves], r \in InputsOfWeight(w - 1 - m)}
         \cup NestedFirst(w, m - 1)

\* A Sell and a second Swap that agree with the first Buy and with SampleSwap on every field
\* but instruction_name (and class) resp. minimum_amount_out.
SampleSell ==
    [SampleBuy(MORTEM_PROGRAM_ID, "Mortem", 7000) EXCEPT !.class = "Sell",
                                                         !.instruction_name = "Sell"]

SampleSwapLoose == [SampleSwap EXCEPT !.minimum_amount_out = 0]

MaxTrades == 5

TradeLeaves ==
    {SampleBuy(MORTEM_PROGRAM_ID, "Mortem", 7000), SampleBuy(PUMPFUN_PROGRAM_ID, "PumpFun", 7000),
     SampleSell, SampleSwap, SampleSwapLoose}

\* The flat lists of up to MaxTrades different trades that share every key field but
\* instruction_name, in every order.
TradeInputs ==
    UNION {{f \in [1..n -> TradeLeaves] : \A i, j \in 1..n : f[i] = f[j] => i = j} :
           n \in 0..MaxTrades}

\* The input lists by weight; past MaxLen, the lists of different trades.
DedupInputs(w) == IF w > MaxLen THEN TradeInputs ELSE InputsOfWeight(w)

ParseOff ==
    /\ tx = None /\ pc = "off" /\ idx = 0 /\ parsed_instructions = <<>>
    /\ dedup_instructions = <<>> /\ addons_result = {} /\ raised = "none"
    /\ resolved = None
DedupOff == xs = <<>> /\ once = <<>> /\ twice = <<>> /\ dpc = "off"
ResolveOff == events = <<>> /\ rres = None /\ rpc = "off"
NormOff == geyser = None /\ normalized = None /\ npc = "off"

DedupInit ==
    /\ ParseOff /\ ResolveOff /\ NormOff
    /\ \E w \in 0..(MaxLen + 1) : xs \in DedupInputs(w)
    /\ once = <<>> /\ twice = <<>> /\ dpc = "in"

DedupOnce ==
    /\ dpc = "in"
    /\ once' = deduplicate_instructions(xs)
    /\ dpc' = "once"
    /\ UNCHANGED <<xs, twice, parseVars, resolveVars, normVars>>

DedupTwice ==
    /\ dpc = "once"
    /\ twice' = deduplicate_instructions(once)
    /\ dpc' = "twice"
    /\ UNCHANGED <<xs, once, parseVars, resolveVars, normVars>>

DedupNext == DedupOnce \/ DedupTwice
DedupSpec == DedupInit /\ [][DedupNext]_vars

(***************************************************************************)
(* Claims about deduplicate_instructions.                                  *)
(***************************************************************************)
IsTrade(e) == e.class \in {"Buy", "Sell", "Swap"}

\* The events of a list in flattened order, nils dropped at both levels.
RECURSIVE EventsOf(_)
EventsOf(l) ==
    IF l = <<>> THEN <<>>
    ELSE LET h == Head(l) IN
         (IF h = None THEN <<>>
          ELSE IF h.class = "list" THEN SelectSeq(h.items, LAMBDA e : e # None)
          ELSE <<h>>) \o EventsOf(Tail(l))

NoNestedNone(l) ==
    \A i \in 1..Len(l) : l[i].class = "list" => \A j \in 1..Len(l[i].items) : l[i].items[j] # None

\* The nine key fields of two trades agree.
SameKey(a, b) ==
    /\ a.signature = b.signature /\ a.instruction_name = b.instruction_name
    /\ a.who = b.who /\ a.from_token = b.from_token /\ a.to_token = b.to_token
    /\ a.from_token_decimals = b.from_token_decimals
    /\ a.to_token_decimals = b.to_token_decimals
    /\ a.from_token_amount = b.from_token_amount
    /\ a.to_token_amount = b.to_token_amount

Survives(flat, i) ==
    IsTrade(flat[i]) => \A j \in 1..(i - 1) : ~(IsTrade(flat[j]) /\ SameKey(flat[j], flat[i]))

RECURSIVE Survivors(_, _)
Survivors(flat, i) ==
    IF i > Len(flat) THEN <<>>
    ELSE (IF Survives(flat, i) THEN <<flat[i]>> ELSE <<>>) \o Survivors(flat, i + 1)

\* C1: for every list of events (flat or nested one level, top-level nils dropped),
\* deduplicate_instructions returns, in flattened input order, exactly the events that
\* survive: a Buy/Sell/Swap iff no earlier event has its nine-field key, every other
\* event always.
C1_DedupKeepsFirstByKey ==
    (dpc \in {"once", "twice"} /\ NoNestedNone(xs)) => once = Survivors(EventsOf(xs), 1)

\* A nested input where a later duplicate was dropped and an Unknown passed through.
C1_Witness ==
    /\ dpc = "once" /\ NoNestedNone(xs)
    /\ \E i \in 1..Len(xs) : xs[i].class = "list" /\ Len(xs[i].items) = 2
    /\ Len(once) < Len(EventsOf(xs))
    /\ \E i \in 1..Len(once) : once[i].class = "Unknown"

\* C2: deduplicate_instructions is idempotent on every input, nested lists and nils
\* included: applying it to its own output returns that output.
C2_DedupIdempotent == dpc = "twice" => twice = once

\* C3: the list deduplicate_instructions returns never contains None, for inputs holding
\* events, nils and nested lists of events and nils.
C3_NoNoneInOutput == dpc \in {"once", "twice"} => \A i \in 1..Len(once) : once[i] # None

(***************************************************************************)
(* parse and the resolvers on a transaction: inputs and steps.             *)
(***************************************************************************)
\* n as 8 little-endian bytes (n < 2^24), a 32-byte public key numbered k, zero bytes.
U64(n) == <<n % 256, (n \div 256) % 256, (n \div 65536) % 256, 0, 0, 0, 0, 0>>
Zeros(n) == [i \in 1..n |-> 0]
PubKey(k) == Zeros(31) \o <<k>>
B58(bytes) == [b58 |-> Some(bytes), b64 |-> Nothing]

\* The full account list of the sample transactions, by position 0..8.
SampleAccounts ==
    <<"Wallet", "SrcAcct", "DstAcct", "Vault", "Unreg",
      RAYDIUM_AMM_PROGRAM_ID, MORTEM_PROGRAM_ID, PUMPFUN_PROGRAM_ID, TOKEN_PROGRAM_ID>>

\* Two addresses of the platform table, in another order than the table's; they end the
\* loaded readonly addresses of the transactions with five static keys.
PlatformTail ==
    <<"9RYJ3qr5eU5xAooqVcbmdeusjcViL5Nkiq7Gske3tiKq",
      "tro46jTMkb56A3wPepo5HT7JcvX9wFWvR8VaJzgdjEf">>

\* How many of the addresses are static keys: all of them, or only the first five (the
\* programs are then loaded addresses: the first two writable, the last two readonly).
StaticKeyCounts == {9, 5}

\* The payload of a RaydiumAMM swap and of a PumpFun trade event.
RayPayload(amount_in, minimum_amount_out) == <<9>> \o U64(amount_in) \o U64(minimum_amount_out)
SwapPayload(mint, sol_amount, token_amount, is_buy, user) ==
    Zeros(16) \o PubKey(mint) \o U64(sol_amount) \o U64(token_amount)
              \o <<IF is_buy THEN 1 ELSE 0>> \o PubKey(user)

\* Top-level instructions: of an unregistered program, a RaydiumAMM swap with the
\* account tail [SrcAcct, DstAcct, Wallet], a Mortem "buy\0" and a Mortem "sell".
InstrUnreg == [programIdIndex |-> 4, accounts |-> <<>>, data |-> B58(<<1>>)]
InstrRaydium == [programIdIndex |-> 5, accounts |-> <<3, 1, 2, 0>>, data |-> B58(RayPayload(100, 1))]
InstrMortem == [programIdIndex |-> 6, accounts |-> <<0>>, data |-> B58(<<98, 117, 121, 0>>)]
InstrMortemSell == [programIdIndex |-> 6, accounts |-> <<0>>, data |-> B58(<<115, 101, 108, 108>>)]
\* RaydiumAMM instructions with discriminator 9 that are malformed: a payload of two
\* bytes, and a single account.
InstrRaydiumShort == [programIdIndex |-> 5, accounts |-> <<3, 1, 2, 0>>, data |-> B58(<<9, 100>>)]
InstrRaydiumFew == [programIdIndex |-> 5, accounts |-> <<0>>, data |-> B58(RayPayload(100, 1))]
\* A Mortem instruction whose discriminator is neither "buy\0" nor "sell".
InstrMortemOther == [programIdIndex |-> 6, accounts |-> <<0>>, data |-> B58(<<1, 2, 3, 4>>)]
InstrMenu == {InstrUnreg, InstrRaydium, InstrMortem, InstrMortemSell, InstrRaydiumShort,
              InstrRaydiumFew, InstrMortemOther}

\* Inner instructions: PumpFun trade events, TokenProgram transfers, a RaydiumAMM swap
\* (alone, or followed by a transfer to the first account).
InnerPumpBuy == [programIdIndex |-> 7, accounts |-> <<>>,
                 data |-> B58(SwapPayload(4, 500, 7000, TRUE, 0))]
InnerPumpSell == [programIdIndex |-> 7, accounts |-> <<>>,
                  data |-> B58(SwapPayload(4, 300, 7000, FALSE, 0))]
InnerTransfer(from, to, amount) ==
    [programIdIndex |-> 8, accounts |-> <<from, to, 0>>, data |-> B58(<<3>> \o U64(amount))]
InnerRaydium == [programIdIndex |-> 5, accounts |-> <<1, 2, 0>>, data |-> B58(RayPayload(40, 2))]
\* Trade events of other amounts, one emitted by Mortem itself; a trade event payload
\* carried by a RaydiumAMM and by a TokenProgram inner instruction; PumpFun payloads of
\* 47 bytes and of 60 bytes (too short to hold a whole SwapData after the prefix).
InnerPumpBuyLate == [programIdIndex |-> 7, accounts |-> <<>>,
                     data |-> B58(SwapPayload(4, 900, 8000, TRUE, 0))]
InnerPumpBuyOther == [programIdIndex |-> 7, accounts |-> <<>>,
                      data |-> B58(SwapPayload(4, 1111, 9000, TRUE, 0))]
InnerMortemBuy == [programIdIndex |-> 6, accounts |-> <<>>,
                   data |-> B58(SwapPayload(4, 600, 8000, TRUE, 0))]
InnerRaydiumCarrier == [programIdIndex |-> 5, accounts |-> <<>>,
                        data |-> B58(SwapPayload(4, 2222, 7000, TRUE, 0))]
InnerTokenCarrier == [programIdIndex |-> 8, accounts |-> <<>>,
                      data |-> B58(SwapPayload(4, 3333, 7000, TRUE, 0))]
InnerPumpShort == [programIdIndex |-> 7, accounts |-> <<>>,
                   data |-> B58(SubSeq(SwapPayload(4, 4444, 7000, TRUE, 0), 1, 47))]
InnerPumpTruncated == [programIdIndex |-> 7, accounts |-> <<>>,
                       data |-> B58(SubSeq(SwapPayload(4, 5555, 7000, TRUE, 0), 1, 60))]
\* A PumpFun trade event of a mint ("Other") that no token balance names.
InnerPumpNoDecimals == [programIdIndex |-> 7, accounts |-> <<>>,
                        data |-> B58(SwapPayload(6, 250, 6000, TRUE, 0))]
Group(i, instrs) == [index |-> i, instructions |-> instrs]

InnerMenu ==
    {<<>>,
     <<Group(0, <<InnerPumpBuy, InnerPumpBuy>>)>>,
     <<Group(0, <<InnerPumpSell>>)>>,
     <<Group(0, <<InnerTransfer(3, 2, 123)>>)>>,
     <<Group(1, <<InnerTransfer(3, 2, 123)>>)>>,
     <<Group(0, <<InnerTransfer(1, 3, 55)>>), Group(0, <<InnerTransfer(3, 2, 123)>>)>>,
     <<Group(0, <<InnerRaydium>>)>>,
     <<Group(0, <<InnerRaydium, InnerTransfer(1, 0, 66)>>)>>,
     <<Group(1, <<InnerPumpBuyOther>>),
       Group(0, <<InnerPumpShort, InnerPumpTruncated, InnerPumpSell, InnerPumpBuy>>),
       Group(0, <<InnerMortemBuy>>)>>,
     <<Group(0, <<InnerRaydiumCarrier>>)>>,
     <<Group(0, <<InnerTokenCarrier, InnerPumpBuyLate>>)>>,
     <<Group(0, <<InnerPumpNoDecimals, InnerPumpSell>>)>>}

TB(i, mint, owner, amount, decimals) ==
    [accountIndex |-> i, mint |-> mint, owner |-> owner, amount |-> amount, decimals |-> decimals]

\* Token balances: none; a buy (WSOL leaves SrcAcct, MintM reaches DstAcct); a sell
\* (MintM leaves SrcAcct, WSOL leaves the pool's Vault); MintM known after the fact only;
\* two falls of MintM (the larger one second, its owner at position 2) and a rise of WSOL.
BalanceMenu ==
    {[pre |-> <<>>, post |-> <<>>],
     [pre |-> <<TB(1, WSOL_MINT, "Wallet", 1000, 9), TB(2, MintM, "Wallet", 0, 6)>>,
      post |-> <<TB(1, WSOL_MINT, "Wallet", 900, 9), TB(2, MintM, "Wallet", 123, 6)>>],
     [pre |-> <<TB(1, MintM, "Wallet", 1000, 6), TB(3, WSOL_MINT, "Pool", 5000, 9)>>,
      post |-> <<TB(1, MintM, "Wallet", 0, 6), TB(3, WSOL_MINT, "Pool", 3000, 9)>>],
     [pre |-> <<>>, post |-> <<TB(2, MintM, "Wallet", 7000, 6)>>],
     [pre |-> <<TB(1, MintM, "Vault", 50, 6), TB(2, MintM, "DstAcct", 400, 6),
                TB(3, WSOL_MINT, "Wallet", 10, 9)>>,
      post |-> <<TB(1, MintM, "Vault", 40, 6), TB(2, MintM, "DstAcct", 100, 6),
                 TB(3, WSOL_MINT, "Wallet", 70, 9)>>]}

\* Log lines: none, a ray_log line whose payload carries 5 at bytes 1..9 and 77 at
\* bytes 9..17, the
\* SwapRaydiumV4 instruction line.
LogMenu ==
    {<<>>,
     <<[text |-> "ray_log:", payload |-> B58(<<3>> \o U64(5) \o U64(77))]>>,
     <<[text |-> "SwapRaydiumV4", payload |-> B58(<<>>)]>>}

\* The sequences over S of length at most n.
SeqsUpTo(S, n) == UNION {[1..m -> S] : m \in 0..n}

Transactions ==
    {[class |-> "Transaction",
      signatures |-> <<"sig1", "sig2">>,
      accountKeys |-> SubSeq(SampleAccounts, 1, k),
      writable |-> SubSeq(SampleAccounts, k + 1, 7),
      readonly |-> SubSeq(SampleAccounts, IF k < 7 THEN 8 ELSE k + 1, 9)
                   \o (IF k < 7 THEN PlatformTail ELSE <<>>),
      instructions |-> instrs,
      innerInstructions |-> inner,
      preTokenBalances |-> bal.pre, postTokenBalances |-> bal.post,
      preBalances |-> <<9000>>, postBalances |-> <<8000>>,
      logMessages |-> logs] :
        k \in StaticKeyCounts, instrs \in SeqsUpTo(InstrMenu, MaxInstr),
        inner \in InnerMenu, bal \in BalanceMenu, logs \in LogMenu}

Init ==
    /\ DedupOff /\ ResolveOff /\ NormOff
    /\ tx \in Transactions
    /\ pc = "loop" /\ idx = 0 /\ parsed_instructions = <<>>
    /\ dedup_instructions = <<>> /\ addons_result = {} /\ raised = "none"
    /\ resolved = None

\* The outcome of one pass of parse's loop body: the program id looked up in
\* message.accountKeys, then the chosen parser's route.
loop_body(t, i) ==
    LET program_id == At(t.accountKeys, t.instructions[i + 1].programIdIndex) IN
    IF program_id = Nothing THEN Raise("IndexError") ELSE route(program_id[1], t, i)

\* One pass of the loop that appends the parsed instruction.
ParseInstruction ==
    /\ pc = "loop" /\ idx < Len(tx.instructions)
    /\ LET action == loop_body(tx, idx) IN
       /\ ~IsRaise(action)
       /\ parsed_instructions' = Append(parsed_instructions, action)
    /\ idx' = idx + 1
    /\ UNCHANGED <<tx, pc, dedup_instructions, addons_result, raised, resolved,
                   dedupVars, resolveVars, normVars>>

\* One pass of the loop in which an exception leaves parse.
ParseRaises ==
    /\ pc = "loop" /\ idx < Len(tx.instructions)
    /\ LET action == loop_body(tx, idx) IN
       /\ IsRaise(action)
       /\ raised' = action.exc
    /\ pc' = "raised"
    /\ UNCHANGED <<tx, idx, parsed_instructions, dedup_instructions, addons_result, resolved,
                   dedupVars, resolveVars, normVars>>

\* After the loop: deduplicate_instructions(parsed_instructions).
Deduplicate ==
    /\ pc = "loop" /\ idx = Len(tx.instructions)
    /\ dedup_instructions' = deduplicate_instructions(parsed_instructions)
    /\ pc' = "addons"
    /\ UNCHANGED <<tx, idx, parsed_instructions, addons_result, raised, resolved,
                   dedupVars, resolveVars, normVars>>

\* The addon loop and the return of parse.
Addons ==
    /\ pc = "addons"
    /\ LET result == platform_identifier_enrich(tx) IN
       addons_result' = IF result # None THEN {<<"platform_identifier", result>>} ELSE {}
    /\ pc' = "done"
    /\ UNCHANGED <<tx, idx, parsed_instructions, dedup_instructions, raised, resolved,
                   dedupVars, resolveVars, normVars>>

\* The two resolvers applied to parse's instructions.
Resolve ==
    /\ pc = "done"
    /\ resolved' = [class |-> "resolved", pumpfun |-> PumpFun_resolve(dedup_instructions),
                    raydium |-> Raydium_resolve(dedup_instructions)]
    /\ pc' = "resolved"
    /\ UNCHANGED <<tx, idx, parsed_instructions, dedup_instructions, addons_result, raised,
                   dedupVars, resolveVars, normVars>>

Next == ParseInstruction \/ ParseRaises \/ Deduplicate \/ Addons \/ Resolve
Spec == Init /\ [][Next]_vars

(***************************************************************************)
(* The resolvers on their own: inputs and step.                            *)
(***************************************************************************)
SamplePumpFunTrade(name, from_token, to_token) ==
    New(name, "pumpfun", PumpFunTradeFields,
        [program_id |-> PUMPFUN_PROGRAM_ID, program_name |-> "PumpFun",
         instruction_name |-> name,
         signature |-> "sig1", who |-> Wallet, from_token |-> from_token,
         from_token_decimals |-> SOL_DECIMALS, to_token |-> to_token, to_token_decimals |-> 6,
         from_token_amount |-> 500, to_token_amount |-> 7000,
         pre_token_balance |-> Nothing, post_token_balance |-> Some(7000),
         pre_sol_balance |-> Some(9000), post_sol_balance |-> Some(8000)])

\* A PumpFun Buy and Sell, a Mortem Buy, a Swap with both amounts positive, a Swap
\* that received nothing, an Unknown; a Swap into WSOL with a zero balance, a Swap
\* between two tokens, a Swap from native SOL into WSOL.
ResolverEvents ==
    {SamplePumpFunTrade("Buy", WSOL_MINT, MintM), SamplePumpFunTrade("Sell", MintM, WSOL_MINT),
     SampleBuy(MORTEM_PROGRAM_ID, "Mortem", 7000), SampleSwap,
     [SampleSwap EXCEPT !.to_token_amount = 0], SampleUnknown,
     [SampleSwap EXCEPT !.from_token = MintM, !.from_token_decimals = 6,
                        !.to_token = WSOL_MINT, !.to_token_decimals = SOL_DECIMALS,
                        !.who = "Other", !.signature = "sig2",
                        !.pre_token_balance = Some(0), !.post_token_balance = Some(1000)],
     [SampleSwap EXCEPT !.from_token = "MintN", !.from_token_decimals = 6],
     [SampleSwap EXCEPT !.from_token = SOL_MINT, !.to_token = WSOL_MINT,
                        !.to_token_decimals = SOL_DECIMALS]}

ResolveInit ==
    /\ ParseOff /\ DedupOff /\ NormOff
    /\ events \in SeqsUpTo(ResolverEvents, MaxEvents)
    /\ rres = None /\ rpc = "in"

\* Both resolvers applied to one list of events.
ResolveEvents ==
    /\ rpc = "in"
    /\ rres' = [class |-> "resolved", pumpfun |-> PumpFun_resolve(events),
                raydium |-> Raydium_resolve(events)]
    /\ rpc' = "out"
    /\ UNCHANGED <<events, parseVars, dedupVars, normVars>>

ResolveNext == ResolveEvents
ResolveSpec == ResolveInit /\ [][ResolveNext]_vars

(***************************************************************************)
(* The streaming-feed normalizer on its own: inputs and step.              *)
(***************************************************************************)
\* base64.b64encode(b), as the feed produces it.
RECURSIVE b64encode(_)
b64encode(b) ==
    IF b = <<>> THEN <<>>
    ELSE IF Len(b) = 1 THEN <<b[1] \div 4, (b[1] % 4) * 16, 64, 64>>
    ELSE IF Len(b) = 2
         THEN <<b[1] \div 4, (b[1] % 4) * 16 + (b[2] \div 16), (b[2] % 16) * 4, 64>>
    ELSE <<b[1] \div 4, (b[1] % 4) * 16 + (b[2] \div 16),
           (b[2] % 16) * 4 + (b[3] \div 64), b[3] % 64>> \o b64encode(SubSeq(b, 4, Len(b)))

\* Raw addresses (short, so that their number fits an integer): with a leading zero
\* byte, of one to four bytes.
RawKeys == {<<0, 7>>, <<255>>, <<1, 2, 3>>, <<100, 0, 9, 1>>}
RawLoaded == {<<0, 0, 200>>, <<58>>}
RawAccounts == {<<>>, <<1, 2, 0>>, <<3, 1, 2, 0, 255>>}

GeyserInputs ==
    {[class |-> "GeyserResponse", slot |-> 1, signatures |-> <<"sig1">>,
      accountKeys |-> [k \in 1..Len(keys) |-> b64encode(keys[k])],
      loadedWritableAddresses |-> [k \in 1..Len(w) |-> b64encode(w[k])],
      loadedReadonlyAddresses |-> [k \in 1..Len(r) |-> b64encode(r[k])],
      innerInstructions |->
          IF acc = <<>> THEN <<>>
          ELSE <<[index |-> 0,
                  instructions |-> <<[programIdIndex |-> 1, data |-> "", stackHeight |-> 2,
                                      accounts |-> b64encode(acc)],
                                     [programIdIndex |-> 0, data |-> "", stackHeight |-> 2,
                                      accounts |-> b64encode(<<>>)]>>]>>] :
        keys \in SeqsUpTo(RawKeys, MaxKeys), w \in SeqsUpTo(RawLoaded, MaxKeys),
        r \in SeqsUpTo(RawLoaded, MaxKeys), acc \in RawAccounts}

NormalizeInit ==
    /\ ParseOff /\ DedupOff /\ ResolveOff
    /\ geyser \in GeyserInputs
    /\ normalized = None /\ npc = "in"

Normalize ==
    /\ npc = "in"
    /\ normalized' = geyser_normalize(geyser)
    /\ npc' = "out"
    /\ UNCHANGED <<geyser, parseVars, dedupVars, resolveVars>>

NormalizeNext == Normalize
NormalizeSpec == NormalizeInit /\ [][NormalizeNext]_vars

(***************************************************************************)
(* Claims about the normalizer.                                            *)
(***************************************************************************)
\* The bytes a base-58 text stands for: as many zero bytes as leading "1"s, then the
\* big-endian bytes of the number its digits spell.
RECURSIVE number58(_)
number58(text) ==
    IF text = <<>> THEN 0 ELSE number58(SubSeq(text, 1, Len(text) - 1)) * 58 + text[Len(text)]

RECURSIVE bytes_of(_)
bytes_of(n) == IF n = 0 THEN <<>> ELSE Append(bytes_of(n \div 256), n % 256)

b58decode(text) == [i \in 1..leading_zeros(text) |-> 0] \o bytes_of(number58(text))

\* out is, element by element and in order, the base-58 form of the base-64 list in.
SameAddresses(in, out) ==
    /\ Len(out) = Len(in)
    /\ \A i \in 1..Len(in) :
          /\ b58decode(out[i]) = b64decode(in[i])
          /\ out[i] = b58encode(b58decode(out[i]))

\* C15: the streaming-feed normalizer returns a Transaction with block_time none, whose
\* three address lists have the length and order of the input lists, each element the
\* base-58 form of its base-64 input, so that the full account list has the sum of the
\* three lengths; each inner instruction's accounts are the bytes of its base-64 input.
C15_GeyserNormalize ==
    npc = "out" =>
        /\ normalized.blockTime = None
        /\ SameAddresses(geyser.accountKeys, normalized.accountKeys)
        /\ SameAddresses(geyser.loadedWritableAddresses, normalized.writable)
        /\ SameAddresses(geyser.loadedReadonlyAddresses, normalized.readonly)
        /\ Len(all_accounts(normalized)) =
              Len(geyser.accountKeys) + Len(geyser.loadedWritableAddresses)
              + Len(geyser.loadedReadonlyAddresses)
        /\ Len(normalized.innerInstructions) = Len(geyser.innerInstructions)
        /\ \A g \in 1..Len(geyser.innerInstructions) :
              \A k \in 1..Len(geyser.innerInstructions[g].instructions) :
                 b64encode(normalized.innerInstructions[g].instructions[k].accounts)
                    = geyser.innerInstructions[g].instructions[k].accounts

\* Two different static keys, a loaded address with leading zero bytes and an inner
\* instruction with five accounts went through the normalizer.
C15_Witness ==
    /\ npc = "out" /\ Len(normalized.accountKeys) = 2
    /\ normalized.accountKeys[1] # normalized.accountKeys[2]
    /\ Len(normalized.writable) >= 1 /\ normalized.writable[1] = <<0, 0, 3, 26>>
    /\ Len(normalized.innerInstructions) = 1
    /\ Len(normalized.innerInstructions[1].instructions[1].accounts) = 5

(***************************************************************************)
(* Claims about parse.                                                     *)
(***************************************************************************)
Returned == pc \in {"addons", "done", "resolved"}

\* C4: parse never fails on a per-instruction error: for every transaction no
\* exception leaves the loop over the instructions (an instruction that cannot be
\* parsed, a Mortem one without swap record or decimals included, becomes an Unknown).
C4_ParseNeverFails == raised = "none"

\* What the pass over instruction i gives when the program address is the entry of the
\* full account list at programIdIndex.
ThroughAllAccounts(t, i) ==
    LET program_id == At(all_accounts(t), t.instructions[i + 1].programIdIndex) IN
    IF program_id = Nothing THEN Raise("IndexError") ELSE route(program_id[1], t, i)

\* C5: parse resolves the program of every top-level instruction through the full
\* account list, also when programIdIndex >= len(accountKeys): every pass of the loop
\* appends the event, or raises the exception, of the parser chosen for that address.
C5_ProgramThroughAllAccounts ==
    /\ \A i \in 1..Len(parsed_instructions) :
          parsed_instructions[i] = ThroughAllAccounts(tx, i - 1)
    /\ pc = "raised" => ThroughAllAccounts(tx, idx) = Raise(raised)

\* Two events count as one for deduplication.
SameEvent(a, b) == IsTrade(a) /\ IsTrade(b) /\ SameKey(a, b)

\* C6: the events parse returns are in wire order: event k of the returned list is the
\* event of a top-level instruction f[k], f is strictly increasing, and f[k] is the
\* first instruction whose event has that deduplication key.
C6_EventsInWireOrder ==
    Returned =>
        \E f \in [1..Len(dedup_instructions) -> 1..Len(tx.instructions)] :
            /\ \A k \in 1..Len(dedup_instructions) :
                  /\ dedup_instructions[k] = loop_body(tx, f[k] - 1)
                  /\ \A i \in 1..(f[k] - 1) :
                        ~SameEvent(loop_body(tx, i - 1), dedup_instructions[k])
            /\ \A k, l \in 1..Len(dedup_instructions) : k < l => f[k] < f[l]

\* Two different events returned, the first a trade.
C6_Witness ==
    /\ pc = "done" /\ Len(dedup_instructions) = 2
    /\ IsTrade(dedup_instructions[1])
    /\ dedup_instructions[1] # dedup_instructions[2]

\* C7 as stated: every event parse returns, Unknown included, has a signature and it is
\* tx.signatures[0].
C7_EveryEventSigned ==
    Returned =>
        \A k \in 1..Len(dedup_instructions) :
            /\ "signature" \in DOMAIN dedup_instructions[k]
            /\ dedup_instructions[k].signature = tx.signatures[1]

\* C7, amended: every Buy, Sell and Swap event parse returns has the signature
\* tx.signatures[0]; an Unknown event has no signature field.
C7_TradesSigned ==
    Returned =>
        \A k \in 1..Len(dedup_instructions) :
            LET e == dedup_instructions[k] IN
            /\ IsTrade(e) => e.signature = tx.signatures[1]
            /\ e.class = "Unknown" => "signature" \notin DOMAIN e

\* A returned list with a Swap next to a Buy or Sell.
C7_Witness ==
    /\ pc = "done"
    /\ \E k \in 1..Len(dedup_instructions) : dedup_instructions[k].class = "Swap"
    /\ \E k \in 1..Len(dedup_instructions) : dedup_instructions[k].class \in {"Buy", "Sell"}

\* Scenario S5: one instruction of an unregistered program, one inner group with two
\* identical PumpFun Buy records.
IsS5(t) ==
    /\ t.instructions = <<InstrUnreg>>
    /\ t.innerInstructions = <<Group(0, <<InnerPumpBuy, InnerPumpBuy>>)>>

\* C8: in scenario S5 parse returns exactly one Buy event and the PumpFun resolver
\* applied to parse's instructions returns a record.
C8_S5OneBuyResolved ==
    IsS5(tx) =>
        /\ pc # "raised"
        /\ Returned => (Len(dedup_instructions) = 1 /\ dedup_instructions[1].class = "Buy")
        /\ pc = "resolved" => resolved.pumpfun # None

\* user_destination of the swap of top-level instruction j: the account before the last
\* one, or the first account of the transaction when the fallback finds no account tail.
UserDestinationOf(t, j) ==
    LET accounts == IF j < Len(t.instructions) THEN t.instructions[j + 1].accounts ELSE <<>>
        all == all_accounts(t)
    IN  IF /\ Len(accounts) >= 3
           /\ \A k \in 1..3 : At(all, FromEnd(accounts, k)[1]) # Nothing
        THEN At(all, FromEnd(accounts, 2)[1])[1]
        ELSE all[1]

\* The amounts of the inner TokenProgram Transfer/TransferChecked instructions to the
\* user_destination of the instruction their group belongs to.
InnerTransferAmounts(t) ==
    LET G == t.innerInstructions
        Hits == {gk \in (1..Len(G)) \X (1..MaxLen) :
                   /\ gk[2] <= Len(G[gk[1]].instructions)
                   /\ LET in_instr == G[gk[1]].instructions[gk[2]]
                          prog_id == At(all_accounts(t), in_instr.programIdIndex)
                      IN  /\ prog_id = Some(TOKEN_PROGRAM_ID)
                          /\ LET action == Token_route_instruction(t, in_instr) IN
                             /\ ~IsRaise(action)
                             /\ action.instruction_name \in {"Transfer", "TransferChecked"}
                             /\ action.to = UserDestinationOf(t, G[gk[1]].index)}
    IN  {Token_route_instruction(t, G[gk[1]].instructions[gk[2]]).amount : gk \in Hits}

\* The strictly positive sign * (pre - post) deltas of token balances paired by
\* accountIndex, of WSOL only or of any mint.
BalanceDeltas(t, sign, wsol_only) ==
    LET Pairs == {ij \in (1..Len(t.preTokenBalances)) \X (1..Len(t.postTokenBalances)) :
                    LET pre == t.preTokenBalances[ij[1]]
                        post == t.postTokenBalances[ij[2]]
                    IN  /\ pre.accountIndex = post.accountIndex
                        /\ wsol_only => (pre.mint = WSOL_MINT /\ post.mint = WSOL_MINT)}
    IN  {d \in {sign * (t.preTokenBalances[ij[1]].amount - t.postTokenBalances[ij[2]].amount) :
                    ij \in Pairs} : d > 0}

\* The u64 at bytes 9..17 of the ray_log payloads of at least 17 bytes.
RayLogValues(t) ==
    {from_bytes(SubSeq(t.logMessages[i].payload.b58[1], 10, 17)) :
        i \in {i \in 1..Len(t.logMessages) :
                 /\ t.logMessages[i].text = "ray_log:"
                 /\ t.logMessages[i].payload.b58 # Nothing
                 /\ Len(t.logMessages[i].payload.b58[1]) >= 17}}

SwapsProduced == {k \in 1..Len(parsed_instructions) : parsed_instructions[k].class = "Swap"}

PumpFunTrades(l) == {i \in 1..Len(l) : l[i].class \in {"Buy", "Sell"} /\ l[i].module = "pumpfun"}
RaydiumSwaps(l) == {i \in 1..Len(l) : l[i].class = "Swap" /\ l[i].module = "raydiumAMM"}
\* The Swaps the Raydium resolver chooses among: all of them, or, when there are
\* several, those with both amounts positive.
EligibleSwaps(l) ==
    IF Cardinality(RaydiumSwaps(l)) > 1
    THEN {i \in RaydiumSwaps(l) : l[i].to_token_amount > 0 /\ l[i].from_token_amount > 0}
    ELSE RaydiumSwaps(l)

BothMatch == rres.pumpfun # None /\ rres.raydium # None

\* C10 as stated: for every list of events the PumpFun resolver and the Raydium
\* resolver do not both return a record.
C10_AtMostOneResolver == rpc = "out" => ~BothMatch

\* C10, amended: both resolvers return a record exactly when the list holds exactly
\* one PumpFun Buy/Sell and exactly one eligible Swap; otherwise at most one does.
C10_BothOnlyWhenBothPresent ==
    rpc = "out" =>
        (BothMatch <=> (/\ Cardinality(PumpFunTrades(events)) = 1
                        /\ Cardinality(EligibleSwaps(events)) = 1))

\* Both resolvers matched a list with a PumpFun trade and two Swaps.
C10_Witness ==
    rpc = "out" /\ BothMatch /\ Cardinality(RaydiumSwaps(events)) = 2

\* The type the spec gives a Swap: buy from WSOL or SOL, else sell into them, else swap.
ExpectedType(e) ==
    CASE e.from_token = WSOL_MINT \/ e.from_token = SOL_MINT -> "buy"
      [] e.from_token # WSOL_MINT /\ e.from_token # SOL_MINT
         /\ (e.to_token = WSOL_MINT \/ e.to_token = SOL_MINT) -> "sell"
      [] OTHER -> "swap"

\* C11: the Raydium resolver takes all Swaps, keeps those with both amounts positive
\* when there are several, and returns a record exactly when one remains: of type buy
\* when from_token is WSOL or SOL, else sell when to_token is, else swap; none otherwise.
C11_RaydiumResolver ==
    rpc = "out" =>
        IF Cardinality(EligibleSwaps(events)) = 1
        THEN \E i \in EligibleSwaps(events) :
                /\ rres.raydium.class = "Raydium"
                /\ rres.raydium.type = ExpectedType(events[i])
                /\ rres.raydium.who = events[i].who
                /\ rres.raydium.signature = events[i].signature
        ELSE rres.raydium = None

\* Several Swaps of which only one has both amounts positive, resolved as a sell.
C11_Witness ==
    /\ rpc = "out" /\ Cardinality(RaydiumSwaps(events)) >= 2
    /\ Cardinality(EligibleSwaps(events)) = 1
    /\ rres.raydium # None /\ rres.raydium.type = "sell"

C13_ResolversNeverRaise ==
    rpc = "out" => /\ rres.pumpfun.class \in {"PumpFun", "NoneType"}
                   /\ rres.raydium.class \in {"Raydium", "NoneType"}

\* Both resolvers returned a record from events with an absent and with a zero balance.
C13_Witness ==
    /\ rpc = "out" /\ rres.pumpfun.class = "PumpFun" /\ rres.raydium.class = "Raydium"
    /\ rres.pumpfun.pre_token_balance = Nothing
    /\ \E i \in RaydiumSwaps(events) : events[i].pre_token_balance = Some(0)
    /\ rres.raydium.pre_token_balance = Nothing

(***************************************************************************)
(* Claims about the addon.                                                 *)
(***************************************************************************)
PlatformHits(t) == {i \in 1..Len(all_accounts(t)) : all_accounts(t)[i] \in DOMAIN PLATFORM}
FirstPlatformHit(t) == CHOOSE i \in PlatformHits(t) : \A j \in PlatformHits(t) : i <= j

\* C14: parse's addons map holds under platform_identifier the (address, name) of the
\* first address of the full account list that is in the platform table, and has no
\* such key when no address of the transaction is in the table.
C14_PlatformOrAbsent ==
    pc \in {"done", "resolved"} =>
        IF PlatformHits(tx) = {}
        THEN \A kv \in addons_result : kv[1] # "platform_identifier"
        ELSE addons_result =
                {<<"platform_identifier",
                   [class |-> "tuple",
                    items |-> <<Some(all_accounts(tx)[FirstPlatformHit(tx)]),
                                Some(PLATFORM[all_accounts(tx)[FirstPlatformHit(tx)]])>>]>>}

(***************************************************************************)
(* Claims about the RaydiumAMM and Mortem parsers and the fallback.        *)
(***************************************************************************)
\* Top-level instruction i is dispatched to the RaydiumAMM parser with discriminator 9
\* and is malformed: payload shorter than 17 bytes, fewer than three accounts, or one of
\* the last three accounts outside the full account list.
MalformedRaydium(t, i) ==
    LET instr == t.instructions[i + 1]
        decoded == decode_data(instr.data)
    IN  /\ At(t.accountKeys, instr.programIdIndex) = Some(RAYDIUM_AMM_PROGRAM_ID)
        /\ decoded # Nothing /\ decoded[1] # <<>> /\ decoded[1][1] = 9
        /\ \/ Len(decoded[1]) < 17
           \/ Len(instr.accounts) < 3
           \/ \E k \in 1..3 : At(all_accounts(t), FromEnd(instr.accounts, k)[1]) = Nothing

\* C16: a malformed RaydiumAMM instruction with discriminator 9 becomes an Unknown
\* event tagged with the RaydiumAMM program: it does not abort parse and gives no Swap.
C16_MalformedRaydiumIsUnknown ==
    /\ \A i \in 1..Len(parsed_instructions) :
          MalformedRaydium(tx, i - 1) =>
              /\ parsed_instructions[i].class = "Unknown"
              /\ parsed_instructions[i].program_id = RAYDIUM_AMM_PROGRAM_ID
    /\ pc = "raised" => ~MalformedRaydium(tx, idx)

\* Top-level instruction i is dispatched to the Mortem parser, and the handler its first
\* four payload bytes select.
IsMortemInstruction(t, i) ==
    At(t.accountKeys, t.instructions[i + 1].programIdIndex) = Some(MORTEM_PROGRAM_ID)

MortemHandler(t, i) ==
    LET d == Slice(decode_data(t.instructions[i + 1].data)[1], 0, 4) IN
    IF d = <<98, 117, 121, 0>> THEN "buy" ELSE IF d = <<115, 101, 108, 108>> THEN "sell"
    ELSE "default"

\* The positions of the records of one kind, and the kind a handler builds from.
KindIndexes(recs, is_buy) == {j \in 1..Len(recs) : recs[j].swap.is_buy = is_buy}
LeastOf(S) == CHOOSE x \in S : \A y \in S : x <= y
HandlerKind(handler, recs) ==
    IF handler = "buy" THEN TRUE ELSE IF handler = "sell" THEN FALSE
    ELSE KindIndexes(recs, TRUE) # {}

\* ev is the Mortem Buy (is_buy) or Sell built from the record r.
BuiltFromRecord(ev, r, is_buy) ==
    /\ ev.program_id = MORTEM_PROGRAM_ID
    /\ ev.who = r.user
    /\ IF is_buy
       THEN /\ ev.class = "Buy" /\ ev.instruction_name = "Buy"
            /\ ev.from_token = WSOL_MINT /\ ev.from_token_amount = r.sol_amount
            /\ ev.to_token = r.mint /\ ev.to_token_amount = r.token_amount
       ELSE /\ ev.class = "Sell" /\ ev.instruction_name = "Sell"
            /\ ev.from_token = r.mint /\ ev.from_token_amount = r.token_amount
            /\ ev.to_token = WSOL_MINT /\ ev.to_token_amount = r.sol_amount

\* No token balance of the transaction names the mint (and the mint is not WSOL).
DecimalsUnknown(t, mint) ==
    /\ mint # WSOL_MINT
    /\ \A j \in 1..Len(t.preTokenBalances \o t.postTokenBalances) :
          (t.preTokenBalances \o t.postTokenBalances)[j].mint # mint

\* C17: over the swap records collected for a Mortem instruction, in inner-instruction
\* order, the buy handler returns the Buy built from the first is_buy record, the sell
\* handler the Sell built from the first record that is not is_buy, the default handler
\* the buy handler's result if any record is_buy and else the sell handler's; a handler
\* with no record of its kind raises ValueError (its NoSwapDataFound signal), as does
\* one whose record names a mint with no known decimals.
C17_MortemHandlers ==
    /\ \A i \in 1..Len(parsed_instructions) :
          IsMortemInstruction(tx, i - 1) =>
              LET recs == Mortem_parse_swap(tx, i - 1).items
                  is_buy == HandlerKind(MortemHandler(tx, i - 1), recs)
                  K == KindIndexes(recs, is_buy)
              IN  /\ K # {}
                  /\ BuiltFromRecord(parsed_instructions[i], recs[LeastOf(K)].swap, is_buy)
    /\ (pc = "raised" /\ IsMortemInstruction(tx, idx)) =>
          LET recs == Mortem_parse_swap(tx, idx).items
              is_buy == HandlerKind(MortemHandler(tx, idx), recs)
              K == KindIndexes(recs, is_buy)
          IN  /\ raised = "ValueError"
              /\ K = {} \/ DecimalsUnknown(tx, recs[LeastOf(K)].swap.mint)

\* The default handler returned the Buy of the first is_buy record of a list that
\* begins with a sell record and holds a later buy record of another amount.
C17_Witness ==
    /\ Len(parsed_instructions) >= 1
    /\ IsMortemInstruction(tx, 0) /\ MortemHandler(tx, 0) = "default"
    /\ LET recs == Mortem_parse_swap(tx, 0).items IN
       /\ Len(recs) = 3
       /\ ~recs[1].swap.is_buy /\ recs[2].swap.is_buy /\ recs[3].swap.is_buy
       /\ recs[2].swap.sol_amount # recs[3].swap.sol_amount
       /\ parsed_instructions[1].class = "Buy"
       /\ parsed_instructions[1].from_token_amount = recs[2].swap.sol_amount

\* The inner instructions of the groups whose index is i, in order, and those of them
\* that carry a swap record: program Mortem or PumpFun through the full account list,
\* a payload of 48 bytes or more that decodes as SwapData after its first 16 bytes.
InnerOfIndex(t, i) == all_inner(SelectSeq(t.innerInstructions, LAMBDA g : g.index = i))

CarriesSwapRecord(t, in_instr) ==
    LET raw == decode_data(in_instr.data) IN
    /\ At(all_accounts(t), in_instr.programIdIndex)
           \in {Some(MORTEM_PROGRAM_ID), Some(PUMPFUN_PROGRAM_ID)}
    /\ raw # Nothing
    /\ Len(raw[1]) >= 48
    /\ SwapData_decode(SubSeq(raw[1], 17, Len(raw[1]))) # Nothing

SwapCarriers(t, i) == SelectSeq(InnerOfIndex(t, i), LAMBDA in_instr : CarriesSwapRecord(t, in_instr))

ExpectedRecords(t, i) ==
    [j \in 1..Len(SwapCarriers(t, i)) |->
        LET raw == decode_data(SwapCarriers(t, i)[j].data)[1] IN
        SwapData_decode(SubSeq(raw, 17, Len(raw)))[1]]

\* The transaction with nothing but the swap carriers of instruction i as its inner
\* instructions.
OnlyCarriers(t, i) ==
    [t EXCEPT !.innerInstructions = <<[index |-> i, instructions |-> SwapCarriers(t, i)]>>]

\* C18: for a Mortem instruction the scan yields exactly the records of the inner
\* instructions that belong to a group with the instruction's index, run under Mortem
\* or PumpFun (through the full account list) and carry 48 bytes or more that decode as
\* SwapData after 16 bytes, in inner-instruction order; every other inner instruction
\* leaves the Mortem event (or the error raised) as it is without them.
C18_MortemScan ==
    \A i \in 0..(Len(tx.instructions) - 1) :
        (IsMortemInstruction(tx, i) /\ (i < Len(parsed_instructions) \/ (pc = "raised" /\ i = idx)))
        => /\ LET recs == Mortem_parse_swap(tx, i).items IN
              [j \in 1..Len(recs) |-> recs[j].swap] = ExpectedRecords(tx, i)
           /\ i < Len(parsed_instructions) =>
                 parsed_instructions[i + 1] = loop_body(OnlyCarriers(tx, i), i)
           /\ (pc = "raised" /\ i = idx) =>
                 /\ IsRaise(loop_body(OnlyCarriers(tx, i), i))
                 /\ loop_body(OnlyCarriers(tx, i), i).exc = raised

\* A Mortem instruction was parsed whose groups hold five inner instructions, three of
\* them swap carriers, beside a group of another index that holds a PumpFun record.
C18_Witness ==
    /\ Len(parsed_instructions) >= 1 /\ IsMortemInstruction(tx, 0)
    /\ Len(InnerOfIndex(tx, 0)) = 5 /\ Len(SwapCarriers(tx, 0)) = 3
    /\ Len(SwapCarriers(tx, 1)) = 1
    /\ parsed_instructions[1].class \in {"Buy", "Sell"}

\* The decimals of the first token balance of pre_token_balances ++ post_token_balances
\* that names the mint (there is one).
FirstBalanceDecimals(t, mint) ==
    LET tbs == t.preTokenBalances \o t.postTokenBalances
        J == {j \in 1..Len(tbs) : tbs[j].mint = mint}
    IN  IF J = {} THEN -1 ELSE tbs[LeastOf(J)].decimals

\* C19: in every Buy, Sell and Swap event a side whose token is the WSOL mint has 9
\* decimals; in a Mortem event the other side has the decimals of the first token
\* balance, pre balances before post balances, that names its mint.
C19_Decimals ==
    \A i \in 1..Len(parsed_instructions) :
        LET ev == parsed_instructions[i] IN
        ev.class \in {"Buy", "Sell", "Swap"} =>
            /\ ev.from_token = WSOL_MINT => ev.from_token_decimals = SOL_DECIMALS
            /\ ev.to_token = WSOL_MINT => ev.to_token_decimals = SOL_DECIMALS
            /\ (ev.program_id = MORTEM_PROGRAM_ID /\ ev.from_token # WSOL_MINT) =>
                  ev.from_token_decimals = FirstBalanceDecimals(tx, ev.from_token)
            /\ (ev.program_id = MORTEM_PROGRAM_ID /\ ev.to_token # WSOL_MINT) =>
                  ev.to_token_decimals = FirstBalanceDecimals(tx, ev.to_token)

\* A Mortem trade of a mint with 6 decimals against WSOL, and a Swap with WSOL on one
\* side only, were parsed from one transaction.
C19_Witness ==
    /\ \E i \in 1..Len(parsed_instructions) :
          /\ parsed_instructions[i].class \in {"Buy", "Sell"}
          /\ parsed_instructions[i].program_id = MORTEM_PROGRAM_ID
          /\ 6 \in {parsed_instructions[i].from_token_decimals,
                     parsed_instructions[i].to_token_decimals}
          /\ tx.preTokenBalances # <<>> /\ tx.preTokenBalances[1].mint = WSOL_MINT
    /\ \E i \in 1..Len(parsed_instructions) :
          /\ parsed_instructions[i].class = "Swap"
          /\ (parsed_instructions[i].to_token = WSOL_MINT)
                 # (parsed_instructions[i].from_token = WSOL_MINT)

\* Top-level instruction i is dispatched to the unknown-program fallback.
IsFallbackInstruction(t, i) ==
    LET program_id == At(t.accountKeys, t.instructions[i + 1].programIdIndex) IN
    program_id # Nothing /\ program_id[1] \notin DOMAIN id_to_handler

\* The (record, origin) pairs the fallback's two PumpFun scans collect, when neither
\* scan raises.
FallbackRecords(t) ==
    IF IsRaise(Unknown_parse_swap_from_inner(t)) \/ IsRaise(Unknown_parse_swap_from_instructions(t))
    THEN <<>>
    ELSE Unknown_parse_swap_from_inner(t).items \o Unknown_parse_swap_from_instructions(t).items

\* Some inner instruction (program through the full account list) or top-level
\* instruction (program through the static keys) has PumpFun as its immediate program.
HasPumpFunInstruction(t) ==
    \/ \E j \in 1..Len(all_inner(t.innerInstructions)) :
          At(all_accounts(t), all_inner(t.innerInstructions)[j].programIdIndex)
              = Some(PUMPFUN_PROGRAM_ID)
    \/ \E j \in 1..Len(t.instructions) :
          At(t.accountKeys, t.instructions[j].programIdIndex) = Some(PUMPFUN_PROGRAM_ID)

\* C20: when an instruction goes to the unknown-program fallback, every swap record its
\* PumpFun scan collects comes from an instruction whose immediate program is PumpFun;
\* without such an instruction the fallback neither returns a Buy or Sell nor enters
\* their construction (where the TypeError of the trade constructors is raised).
C20_FallbackScansPumpFunOnly ==
    \A i \in 0..(Len(tx.instructions) - 1) :
        (IsFallbackInstruction(tx, i) /\ (i < Len(parsed_instructions) \/ (pc = "raised" /\ i = idx)))
        => /\ \A j \in 1..Len(FallbackRecords(tx)) :
                 FallbackRecords(tx)[j].origin = PUMPFUN_PROGRAM_ID
           /\ (i < Len(parsed_instructions) /\ ~HasPumpFunInstruction(tx)) =>
                 parsed_instructions[i + 1].class \notin {"Buy", "Sell"}
           /\ (pc = "raised" /\ i = idx /\ ~HasPumpFunInstruction(tx)) => raised # "TypeError"

\* The fallback's surviving PumpFun events: the collected records that are not of a
\* blacklisted program, made unique by their key.
SurvivingEvents(t) ==
    unique_events_loop(t, SelectSeq(FallbackRecords(t),
                                    LAMBDA ev : ev.origin \notin BLACKLIST_PROGRAM_IDS), {}, <<>>)

\* Instruction i has been through parse's loop: its event was appended, or its pass
\* raised.
Processed(i) == i < Len(parsed_instructions) \/ (pc = "raised" /\ i = idx)

\* ev is the fallback's Buy (is_buy) or Sell built from the record r.
FallbackBuiltFromRecord(ev, r, is_buy) ==
    /\ ev.who = r.user
    /\ IF is_buy
       THEN /\ ev.class = "Buy"
            /\ ev.from_token = WSOL_MINT /\ ev.from_token_amount = r.sol_amount
            /\ ev.to_token = r.mint /\ ev.to_token_amount = r.token_amount
       ELSE /\ ev.class = "Sell"
            /\ ev.from_token = r.mint /\ ev.from_token_amount = r.token_amount
            /\ ev.to_token = WSOL_MINT /\ ev.to_token_amount = r.sol_amount

\* C21: when the fallback has a surviving event that is a buy, its result is the Buy
\* built from the first such event, even after earlier sells; with no surviving buy and
\* a surviving sell, its result is the Sell built from the first such event.
C21_FallbackPrefersBuys ==
    \A i \in 0..(Len(tx.instructions) - 1) :
        (IsFallbackInstruction(tx, i) /\ Processed(i) /\ SurvivingEvents(tx) # <<>>) =>
            LET surv == SurvivingEvents(tx)
                is_buy == KindIndexes(surv, TRUE) # {}
                r == surv[LeastOf(KindIndexes(surv, is_buy))].swap
            IN  /\ i < Len(parsed_instructions)
                /\ FallbackBuiltFromRecord(parsed_instructions[i + 1], r, is_buy)

\* The collected records, blacklisted programs left out, and whether all of them, or
\* an earlier one of two, name a mint without known decimals.
AllowedRecords(t) ==
    SelectSeq(FallbackRecords(t), LAMBDA ev : ev.origin \notin BLACKLIST_PROGRAM_IDS)

AllWithoutDecimals(t) ==
    \A j \in 1..Len(AllowedRecords(t)) : DecimalsUnknown(t, AllowedRecords(t)[j].swap.mint)

KnownAfterUnknown(t) ==
    \E j, k \in 1..Len(AllowedRecords(t)) :
        /\ j < k
        /\ DecimalsUnknown(t, AllowedRecords(t)[j].swap.mint)
        /\ ~DecimalsUnknown(t, AllowedRecords(t)[k].swap.mint)

\* C22: in the fallback a PumpFun record whose mint has no decimals in the token balances
\* is dropped and the scan goes on: records of that sort alone never make the pass fail,
\* no returned Buy or Sell is built from one, and a later record with known decimals is
\* still returned as the Buy or Sell built from it.
C22_UnknownDecimalsDropped ==
    \A i \in 0..(Len(tx.instructions) - 1) :
        (IsFallbackInstruction(tx, i) /\ Processed(i) /\ AllowedRecords(tx) # <<>>) =>
            /\ AllWithoutDecimals(tx) =>
                  /\ i < Len(parsed_instructions)
                  /\ parsed_instructions[i + 1].class \notin {"Buy", "Sell"}
            /\ KnownAfterUnknown(tx) =>
                  LET surv == SurvivingEvents(tx)
                      is_buy == KindIndexes(surv, TRUE) # {}
                      r == surv[LeastOf(KindIndexes(surv, is_buy))].swap
                  IN  /\ i < Len(parsed_instructions)
                      /\ ~DecimalsUnknown(tx, r.mint)
                      /\ FallbackBuiltFromRecord(parsed_instructions[i + 1], r, is_buy)

\* Balance inference, from the balances alone: the account indexes with a pre and a post
\* token balance, the last balance of a list for an index, and the indexes with the
\* largest strictly positive fall and rise.
BothIndexes(t) ==
    {t.preTokenBalances[j].accountIndex : j \in 1..Len(t.preTokenBalances)}
        \cap {t.postTokenBalances[j].accountIndex : j \in 1..Len(t.postTokenBalances)}

LastWith(tbs, a) ==
    tbs[CHOOSE j \in 1..Len(tbs) :
            /\ tbs[j].accountIndex = a
            /\ \A k \in (j + 1)..Len(tbs) : tbs[k].accountIndex # a]

FallOf(t, a) == LastWith(t.preTokenBalances, a).amount - LastWith(t.postTokenBalances, a).amount

DropIndexes(t) ==
    {a \in BothIndexes(t) : FallOf(t, a) > 0 /\ \A b \in BothIndexes(t) : FallOf(t, b) <= FallOf(t, a)}

RiseIndexes(t) ==
    {a \in BothIndexes(t) : FallOf(t, a) < 0 /\ \A b \in BothIndexes(t) : FallOf(t, b) >= FallOf(t, a)}

InferenceFinds(t) == DropIndexes(t) # {} /\ RiseIndexes(t) # {}

\* The Raydium payloads of the fallback's two Raydium scans (none when a scan raises),
\* and the Swap of the first of them that builds.
RaydiumPayloads(t) ==
    IF IsRaise(Unknown_parse_raydium_swap_from_instructions(t))
       \/ IsRaise(Unknown_parse_raydium_swap_from_inner(t))
    THEN <<>>
    ELSE unique_raydium_loop(t, Unknown_parse_raydium_swap_from_instructions(t).items
                                    \o Unknown_parse_raydium_swap_from_inner(t).items, {}, <<>>)

RaydiumBuilt(t) == first_raydium_build(t, RaydiumPayloads(t))

\* C23: the fallback always ends with one of Buy, Sell, Swap and Unknown, in a fixed
\* priority: a surviving PumpFun event gives a Buy or Sell whatever the Raydium payloads,
\* else a Raydium payload that builds gives its Swap whatever the balances, and Unknown
\* (program_id the resolved address, program_name "Unknown", the instruction's index) is
\* the result exactly when no PumpFun event survives, no Raydium payload builds and the
\* balances show no fall or no rise.
C23_FallbackPriority ==
    \A i \in 0..(Len(tx.instructions) - 1) :
        (IsFallbackInstruction(tx, i) /\ Processed(i)) =>
            /\ i < Len(parsed_instructions)
            /\ LET ev == parsed_instructions[i + 1] IN
               /\ ev.class \in {"Buy", "Sell", "Swap", "Unknown"}
               /\ SurvivingEvents(tx) # <<>> => ev.class \in {"Buy", "Sell"}
               /\ (SurvivingEvents(tx) = <<>> /\ RaydiumBuilt(tx) # Nothing) =>
                     ev = RaydiumBuilt(tx)[1]
               /\ ev.class = "Unknown" <=>
                     (SurvivingEvents(tx) = <<>> /\ RaydiumBuilt(tx) = Nothing
                      /\ ~InferenceFinds(tx))
               /\ ev.class = "Unknown" =>
                     /\ ev.program_id = tx.accountKeys[tx.instructions[i + 1].programIdIndex + 1]
                     /\ ev.program_name = "Unknown"
                     /\ ev.instruction_index = i

\* The top-level instruction a Raydium payload refers to does not provide the three
\* trailing account positions: there is no instruction at the index, it has fewer than
\* three accounts, or one of the three lies outside the full account list.
LacksPositions(t, index) ==
    \/ index < 0 \/ index >= Len(t.instructions)
    \/ Len(t.instructions[index + 1].accounts) < 3
    \/ \E k \in 1..3 :
          At(all_accounts(t), FromEnd(t.instructions[index + 1].accounts, k)[1]) = Nothing

\* C24: when no PumpFun event survives and every Raydium payload the fallback found
\* refers to an instruction without the three trailing account positions, the result is
\* the one of balance inference (its Swap, or Unknown when it finds none), not a Swap
\* built from substitute accounts.
C24_NoPositionsMeansInference ==
    \A i \in 0..(Len(tx.instructions) - 1) :
        (/\ IsFallbackInstruction(tx, i) /\ i < Len(parsed_instructions)
         /\ SurvivingEvents(tx) = <<>> /\ RaydiumPayloads(tx) # <<>>
         /\ \A j \in 1..Len(RaydiumPayloads(tx)) : LacksPositions(tx, RaydiumPayloads(tx)[j].idx))
        => IF InferenceFinds(tx)
           THEN parsed_instructions[i + 1] = Unknown_infer_raydium_swap(tx)
           ELSE parsed_instructions[i + 1].class = "Unknown"

\* Top-level instruction i went to the RaydiumAMM parser as a swap (discriminator 9) with
\* a payload of at least 17 bytes and at least three accounts.
IsRaydiumSwapInstruction(t, i) ==
    LET instr == t.instructions[i + 1]
        decoded == decode_data(instr.data)
    IN  /\ At(t.accountKeys, instr.programIdIndex) = Some(RAYDIUM_AMM_PROGRAM_ID)
        /\ decoded # Nothing /\ Len(decoded[1]) >= 17 /\ decoded[1][1] = 9
        /\ Len(instr.accounts) >= 3

\* C25: for every top-level RaydiumAMM swap instruction with a payload of at least 17
\* bytes and at least three accounts, the Swap the RaydiumAMM parser returned equals the
\* Swap the fallback's _build_raydium_swap builds for the same payload and index, field
\* by field (who, tokens, decimals, amounts, minimum_amount_out, balances).
C25_FallbackBuildsAsRaydium ==
    \A i \in 0..(Len(parsed_instructions) - 1) :
        IsRaydiumSwapInstruction(tx, i) =>
            parsed_instructions[i + 1]
                = Unknown_build_raydium_swap(tx, decode_data(tx.instructions[i + 1].data)[1], i)

\* The fallback reached balance inference for instruction i: no PumpFun event survived
\* and no Raydium payload built.
ReachedInference(t, i) ==
    /\ IsFallbackInstruction(t, i)
    /\ SurvivingEvents(t) = <<>> /\ RaydiumBuilt(t) = Nothing

\* Positions of who in the full account list.
PositionsOf(t, who) == {p \in 0..(Len(all_accounts(t)) - 1) : all_accounts(t)[p + 1] = who}

\* C26: the balance-inferred Swap takes, over the account indexes with a pre and a post
\* token balance, the index with the largest strictly positive pre - post as drop and
\* the one with the largest strictly positive post - pre as rise: who is the drop's
\* owner, from_token and from_token_amount the drop's mint and difference, to_token and
\* to_token_amount the rise's, minimum_amount_out 0, both amounts positive, the SOL
\* balances read at the position of who in the full account list; with either
\* candidate missing there is no Swap.
C26_InferredSwap ==
    \A i \in 0..(Len(parsed_instructions) - 1) :
        ReachedInference(tx, i) =>
            LET ev == parsed_instructions[i + 1] IN
            IF ~InferenceFinds(tx) THEN ev.class # "Swap"
            ELSE /\ ev.class = "Swap"
                 /\ \E a \in DropIndexes(tx), b \in RiseIndexes(tx) :
                       /\ ev.who = LastWith(tx.preTokenBalances, a).owner
                       /\ ev.from_token = LastWith(tx.preTokenBalances, a).mint
                       /\ ev.from_token_amount = FallOf(tx, a)
                       /\ ev.to_token = LastWith(tx.postTokenBalances, b).mint
                       /\ ev.to_token_amount = 0 - FallOf(tx, b)
                 /\ ev.minimum_amount_out = 0
                 /\ ev.from_token_amount > 0 /\ ev.to_token_amount > 0
                 /\ \A p \in PositionsOf(tx, ev.who) :
                       /\ ev.pre_sol_balance = sol_balance(tx.preBalances, p)
                       /\ ev.post_sol_balance = sol_balance(tx.postBalances, p)

\* An inferred Swap whose drop is the larger of two falls and whose owner sits at a
\* position other than 0.
C26_Witness ==
    /\ Len(parsed_instructions) >= 1 /\ ReachedInference(tx, 0)
    /\ Cardinality({a \in BothIndexes(tx) : FallOf(tx, a) > 0}) = 2
    /\ parsed_instructions[1].class = "Swap"
    /\ parsed_instructions[1].from_token_amount = 300
    /\ parsed_instructions[1].to_token_amount = 60
    /\ PositionsOf(tx, parsed_instructions[1].who) = {2}

\* The positions, among the inner instructions of every group with index i, of the
\* TokenProgram Transfer / TransferChecked instructions to the user_destination of
\* top-level instruction i (its last account but one).
MatchingTransfers(t, i) ==
    LET user_destination == At(all_accounts(t), FromEnd(t.instructions[i + 1].accounts, 2)[1]) IN
    {j \in 1..Len(InnerOfIndex(t, i)) :
        LET in_instr == InnerOfIndex(t, i)[j] IN
        /\ At(all_accounts(t), in_instr.programIdIndex) = Some(TOKEN_PROGRAM_ID)
        /\ ~IsRaise(Token_route_instruction(t, in_instr))
        /\ Token_route_instruction(t, in_instr).instruction_name \in {"Transfer", "TransferChecked"}
        /\ Some(Token_route_instruction(t, in_instr).to) = user_destination}

\* C27: the RaydiumAMM parser takes to_token_amount from the inner instructions of every
\* group whose index is the instruction's: a TokenProgram Transfer / TransferChecked to
\* user_destination among them supplies its amount, and with none the amount is 0
\* (before the sell-side fixup, which concerns a WSOL output only).
C27_ToAmountFromEveryGroup ==
    \A i \in 0..(Len(parsed_instructions) - 1) :
        IsRaydiumSwapInstruction(tx, i) =>
            LET ev == parsed_instructions[i + 1]
                M == MatchingTransfers(tx, i)
            IN  /\ M # {} =>
                      ev.to_token_amount \in
                          {Token_route_instruction(tx, InnerOfIndex(tx, i)[j]).amount : j \in M}
                /\ (M = {} /\ ev.to_token # WSOL_MINT) => ev.to_token_amount = 0

\* The largest element of a non-empty set of integers.
LargestOf(S) == CHOOSE x \in S : \A y \in S : y <= x

\* The value of the first ray_log line whose payload has at least 17 bytes and a
\* non-zero u64 at bytes 9..17, if there is one.
FirstRayLog(t) ==
    LET Q == {j \in 1..Len(t.logMessages) :
                /\ t.logMessages[j].text = "ray_log:"
                /\ t.logMessages[j].payload.b58 # Nothing
                /\ Len(t.logMessages[j].payload.b58[1]) >= 17
                /\ from_bytes(SubSeq(t.logMessages[j].payload.b58[1], 10, 17)) # 0}
    IN  IF Q = {} THEN Nothing
        ELSE Some(from_bytes(SubSeq(t.logMessages[LeastOf(Q)].payload.b58[1], 10, 17)))

\* What process_Swap holds before the fixup for top-level instruction i: the output
\* token and its decimals, and the amount set by the inner transfers.
BeforeFixup(t, i) ==
    LET accounts == t.instructions[i + 1].accounts
        user_source == At(all_accounts(t), FromEnd(accounts, 3)[1])[1]
        user_destination == At(all_accounts(t), FromEnd(accounts, 2)[1])[1]
        sides == token_sides(t, t.preTokenBalances \o t.postTokenBalances,
                             user_source, user_destination, default_sides)
    IN  [to_token |-> sides.to_token, to_token_decimals |-> sides.to_token_decimals,
         to_token_amount |-> transfer_amount(t, first_group(t.innerInstructions, i),
                                             user_destination, [class |-> "int", v |-> 0]).v]

\* The decimals of the WSOL pre balances whose pre - post difference is d.
DecimalsOfDelta(t, d) ==
    {t.preTokenBalances[j].decimals :
        j \in {j \in 1..Len(t.preTokenBalances) :
                 /\ t.preTokenBalances[j].mint = WSOL_MINT
                 /\ \E k \in 1..Len(t.postTokenBalances) :
                       /\ t.postTokenBalances[k].mint = WSOL_MINT
                       /\ t.postTokenBalances[k].accountIndex = t.preTokenBalances[j].accountIndex
                       /\ t.preTokenBalances[j].amount - t.postTokenBalances[k].amount = d}}

\* C28: the sell-side fixup of the RaydiumAMM parser runs only when to_token is WSOL and
\* the inner transfers left to_token_amount at 0; the amount then becomes the largest
\* strictly positive pre - post difference of the WSOL token balances paired by account
\* index, with that balance's decimals; only without such a difference it becomes the
\* value of the first ray_log line with at least 17 payload bytes and a non-zero u64 at
\* bytes 9..17; otherwise amount and decimals stay as they were.
C28_SellSideFixup ==
    \A i \in 0..(Len(parsed_instructions) - 1) :
        IsRaydiumSwapInstruction(tx, i) =>
            LET ev == parsed_instructions[i + 1]
                before == BeforeFixup(tx, i)
                D == BalanceDeltas(tx, 1, TRUE)
            IN  /\ ev.to_token = before.to_token
                /\ IF before.to_token = WSOL_MINT /\ before.to_token_amount = 0 /\ D # {}
                   THEN /\ ev.to_token_amount = LargestOf(D)
                        /\ ev.to_token_decimals \in DecimalsOfDelta(tx, LargestOf(D))
                   ELSE IF /\ before.to_token = WSOL_MINT /\ before.to_token_amount = 0
                           /\ FirstRayLog(tx) # Nothing
                   THEN /\ ev.to_token_amount = FirstRayLog(tx)[1]
                        /\ ev.to_token_decimals = before.to_token_decimals
                   ELSE /\ ev.to_token_amount = before.to_token_amount
                        /\ ev.to_token_decimals = before.to_token_decimals

\* A Swap whose WSOL output amount is the balance difference 2000 although a ray_log
\* line with a non-zero value is present.
C28_Witness ==
    /\ Len(parsed_instructions) >= 1 /\ IsRaydiumSwapInstruction(tx, 0)
    /\ BeforeFixup(tx, 0).to_token = WSOL_MINT /\ BeforeFixup(tx, 0).to_token_amount = 0
    /\ FirstRayLog(tx) = Some(77)
    /\ parsed_instructions[1].to_token_amount = 2000
    /\ parsed_instructions[1].to_token_decimals = 9

\* The top-level instructions that went to the fallback and got a Buy, Sell or Swap.
FallbackTrades ==
    {i \in 0..(Len(parsed_instructions) - 1) :
        /\ IsFallbackInstruction(tx, i)
        /\ parsed_instructions[i + 1].class \in {"Buy", "Sell", "Swap"}}

SameButName(a, b) ==
    /\ a.signature = b.signature /\ a.who = b.who
    /\ a.from_token = b.from_token /\ a.to_token = b.to_token
    /\ a.from_token_decimals = b.from_token_decimals
    /\ a.to_token_decimals = b.to_token_decimals
    /\ a.from_token_amount = b.from_token_amount
    /\ a.to_token_amount = b.to_token_amount

\* The least position of the flattened input holding a trade with the key of e.
FirstWithKey(flat, e) ==
    LeastOf({k \in 1..Len(flat) : IsTrade(flat[k]) /\ SameKey(flat[k], e)})

\* C30: program_id, program_name and minimum_amount_out are no part of the key: of the
\* Buy/Sell/Swap events of the input that agree on the nine key fields, whatever their
\* program_id, program_name or minimum_amount_out, deduplicate_instructions keeps exactly
\* one, and it is the first of them; trades that agree on the other eight fields and
\* differ in instruction_name are each kept.
C30_KeyIgnoresProgramAndMinimum ==
    dpc \in {"once", "twice"} =>
        LET flat == EventsOf(xs) IN
        \A i \in 1..Len(flat) : IsTrade(flat[i]) =>
            LET kept == {k \in 1..Len(once) : IsTrade(once[k]) /\ SameKey(once[k], flat[i])}
            IN  /\ Cardinality(kept) = 1
                /\ \A k \in kept : once[k] = flat[FirstWithKey(flat, flat[i])]
                /\ \A j \in 1..Len(flat) :
                      (IsTrade(flat[j]) /\ SameButName(flat[i], flat[j])
                         /\ flat[i].instruction_name # flat[j].instruction_name) =>
                      \E k, l \in 1..Len(once) :
                          /\ k # l
                          /\ IsTrade(once[k]) /\ SameKey(once[k], flat[i])
                          /\ IsTrade(once[l]) /\ SameKey(once[l], flat[j])

\* A Mortem Buy, an equal Buy of another program, a Sell, a Swap and a Swap with another
\* minimum_amount_out went in; the first Buy, the Sell and the first Swap came out.
C30_Witness ==
    /\ dpc = "once"
    /\ xs = <<SampleBuy(MORTEM_PROGRAM_ID, "Mortem", 7000),
              SampleBuy(PUMPFUN_PROGRAM_ID, "PumpFun", 7000),
              SampleSell, SampleSwap, SampleSwapLoose>>
    /\ once = <<SampleBuy(MORTEM_PROGRAM_ID, "Mortem", 7000), SampleSell, SampleSwap>>

====
